---- MODULE Spec2Model ----
(***************************************************************************)
(* Build-log tooling of Backdoor-Signer:                                   *)
(*   scripts/ci/auto-fix-build-errors.py   (class BuildErrorFixer)         *)
(*   scripts/ci/enhanced-error-analyzer.py (class EnhancedBuildErrorAnalyzer)*)
(*                                                                         *)
(* Text is modelled as a sequence of lexemes: a Python str is a sequence   *)
(* of tokens (words, punctuation, " " and "\n"), and the substring,        *)
(* prefix, strip, split and regular-expression operations of the source    *)
(* are computed on those sequences.                                        *)
(***************************************************************************)
EXTENDS Integers, Sequences, FiniteSets, TLC

\* ------------------------------------------------------------------------
\* Python str and list primitives
\* ------------------------------------------------------------------------

\* str.isspace() of one lexeme
IsSpace(t) == t \in {" ", "\n", "\t"}

\* a lexeme matched by the regular expression \w+
IsWord(t) == t \notin {" ", "\n", "\t", "'", "\"", "{", "}", "=", ":", "//", "(", ")", "[", "]", "?", "@", ",", "*", "-"}

\* p in s
Contains(s, p) == \E i \in 0..(Len(s) - Len(p)) : SubSeq(s, i + 1, i + Len(p)) = p

\* s.startswith(p)
StartsWith(s, p) == Len(p) <= Len(s) /\ SubSeq(s, 1, Len(p)) = p

\* s.endswith(p)
EndsWith(s, p) == Len(p) <= Len(s) /\ SubSeq(s, Len(s) - Len(p) + 1, Len(s)) = p

\* s.count(t) for a one-lexeme t
Count(s, t) == Cardinality({i \in 1..Len(s) : s[i] = t})

RECURSIVE LStrip(_)
\* s.lstrip()
LStrip(s) == IF s = <<>> \/ ~IsSpace(Head(s)) THEN s ELSE LStrip(Tail(s))

RECURSIVE RStrip(_)
\* s.rstrip()
RStrip(s) == IF s = <<>> \/ ~IsSpace(s[Len(s)]) THEN s ELSE RStrip(SubSeq(s, 1, Len(s) - 1))

\* s.strip()
Strip(s) == LStrip(RStrip(s))

RECURSIVE Join(_)
\* ''.join(lines)
Join(lines) == IF lines = <<>> THEN <<>> ELSE Head(lines) \o Join(Tail(lines))

RECURSIVE SplitLines(_)
\* content.splitlines(True): the lines of content, line endings kept
SplitLines(content) ==
    IF content = <<>> THEN <<>>
    ELSE LET nl == {i \in 1..Len(content) : content[i] = "\n"}
         IN  IF nl = {} THEN <<content>>
             ELSE LET k == CHOOSE i \in nl : \A j \in nl : i <= j
                  IN  <<SubSeq(content, 1, k)>> \o SplitLines(SubSeq(content, k + 1, Len(content)))

RECURSIVE Replace(_, _, _)
\* s.replace(old, new): every non-overlapping occurrence, left to right
Replace(s, old, new) ==
    IF Len(s) < Len(old) THEN s
    ELSE IF StartsWith(s, old) THEN new \o Replace(SubSeq(s, Len(old) + 1, Len(s)), old, new)
    ELSE <<Head(s)>> \o Replace(Tail(s), old, new)

\* s.split(sep) for a one-lexeme sep that occurs exactly once: <<left, right>>
SplitOnce(s, sep) ==
    LET k == CHOOSE i \in 1..Len(s) : s[i] = sep
    IN  <<SubSeq(s, 1, k - 1), SubSeq(s, k + 1, Len(s))>>

\* the position list.insert(i, x) inserts before (0-based), for any integer i
InsertPos(lines, i) ==
    IF i < 0 THEN (IF Len(lines) + i < 0 THEN 0 ELSE Len(lines) + i)
    ELSE IF i > Len(lines) THEN Len(lines) ELSE i

\* list.insert(i, x)
ListInsert(lines, i, x) ==
    LET p == InsertPos(lines, i)
    IN  SubSeq(lines, 1, p) \o <<x>> \o SubSeq(lines, p + 1, Len(lines))

\* lines[i] of a Python list is defined (no IndexError), i 0-based, may be negative
InRange(lines, i) == -Len(lines) <= i /\ i < Len(lines)

\* the 1-based position of lines[i]
PyPos(lines, i) == IF i < 0 THEN Len(lines) + i + 1 ELSE i + 1

\* words joined by single spaces
RECURSIVE Sp(_)
Sp(ws) == IF Len(ws) <= 1 THEN ws ELSE <<Head(ws), " ">> \o Sp(Tail(ws))

\* a name between single quotes
Q(name) == <<"'">> \o name \o <<"'">>

\* ------------------------------------------------------------------------
\* Regular expressions of the two scripts, on lexeme sequences
\* ------------------------------------------------------------------------

\* pat occurs in msg at position i (1-based)
MatchAt(msg, i, pat) == i >= 1 /\ i + Len(pat) - 1 <= Len(msg) /\ SubSeq(msg, i, i + Len(pat) - 1) = pat

\* the regular expression  '([^']+)'  anchored at position k:
\* the position of the closing quote, 0 when there is no match
QuoteEnd(msg, k) ==
    IF k >= 1 /\ k <= Len(msg) /\ msg[k] = "'"
       /\ \E j \in (k + 2)..Len(msg) : msg[j] = "'" /\ \A m \in (k + 1)..(j - 1) : msg[m] # "'"
    THEN CHOOSE j \in (k + 2)..Len(msg) : msg[j] = "'" /\ \A m \in (k + 1)..(j - 1) : msg[m] # "'"
    ELSE 0

\* re.search(prefix + r"'([^']+)'", msg): group 1 of the leftmost match, <<>> when none
QuotedAfter(msg, prefix) ==
    LET hits == {i \in 1..Len(msg) : MatchAt(msg, i, prefix) /\ QuoteEnd(msg, i + Len(prefix)) # 0}
    IN  IF hits = {} THEN <<>>
        ELSE LET i == CHOOSE h \in hits : \A g \in hits : h <= g
                 k == i + Len(prefix)
             IN  SubSeq(msg, k + 1, QuoteEnd(msg, k) - 1)

\* the length of the run of \w lexemes that starts at position k
RECURSIVE WordRun(_, _)
WordRun(msg, k) == IF k > Len(msg) \/ ~IsWord(msg[k]) THEN 0 ELSE 1 + WordRun(msg, k + 1)

\* r"conformance of '([^']+)' to protocol '([^']+)'": <<type, protocol>>, <<>> when no match
ConformanceMatch(msg) ==
    LET pre == <<"conformance", " ", "of", " ">>
        mid == <<" ", "to", " ", "protocol", " ">>
        ok(i) == /\ MatchAt(msg, i, pre)
                 /\ QuoteEnd(msg, i + Len(pre)) # 0
                 /\ MatchAt(msg, QuoteEnd(msg, i + Len(pre)) + 1, mid)
                 /\ QuoteEnd(msg, QuoteEnd(msg, i + Len(pre)) + 1 + Len(mid)) # 0
        hits == {i \in 1..Len(msg) : ok(i)}
    IN  IF hits = {} THEN <<>>
        ELSE LET i  == CHOOSE h \in hits : \A g \in hits : h <= g
                 q1 == i + Len(pre)
                 e1 == QuoteEnd(msg, q1)
                 q2 == e1 + 1 + Len(mid)
                 e2 == QuoteEnd(msg, q2)
             IN  <<SubSeq(msg, q1 + 1, e1 - 1), SubSeq(msg, q2 + 1, e2 - 1)>>

\* r"cannot (convert|assign) value of type '([^']+)' to (\w+) type '([^']+)'":
\* <<action, from_type, to_category, to_type>>, <<>> when no match
TypeMismatchMatch(msg) ==
    LET tail == <<" ", "value", " ", "of", " ", "type", " ">>
        q1(i) == i + 3 + Len(tail)
        e1(i) == QuoteEnd(msg, q1(i))
        w(i)  == e1(i) + 4
        r(i)  == WordRun(msg, w(i))
        q2(i) == w(i) + r(i) + 3
        e2(i) == QuoteEnd(msg, q2(i))
        ok(i) == /\ MatchAt(msg, i, <<"cannot", " ">>)
                 /\ i + 2 <= Len(msg) /\ msg[i + 2] \in {"convert", "assign"}
                 /\ MatchAt(msg, i + 3, tail)
                 /\ e1(i) # 0
                 /\ MatchAt(msg, e1(i) + 1, <<" ", "to", " ">>)
                 /\ r(i) >= 1
                 /\ MatchAt(msg, w(i) + r(i), <<" ", "type", " ">>)
                 /\ e2(i) # 0
        hits == {i \in 1..Len(msg) : ok(i)}
    IN  IF hits = {} THEN <<>>
        ELSE LET i == CHOOSE h \in hits : \A g \in hits : h <= g
             IN  <<msg[i + 2], SubSeq(msg, q1(i) + 1, e1(i) - 1),
                   SubSeq(msg, w(i), w(i) + r(i) - 1), SubSeq(msg, q2(i) + 1, e2(i) - 1)>>

\* r"use of undeclared (type|identifier) '([^']+)'": <<kind, identifier>>, <<>> when no match
UndeclaredMatch(msg) ==
    LET pre == <<"use", " ", "of", " ", "undeclared", " ">>
        ok(i) == /\ MatchAt(msg, i, pre)
                 /\ i + Len(pre) + 1 <= Len(msg)
                 /\ msg[i + Len(pre)] \in {"type", "identifier"}
                 /\ msg[i + Len(pre) + 1] = " "
                 /\ QuoteEnd(msg, i + Len(pre) + 2) # 0
        hits == {i \in 1..Len(msg) : ok(i)}
    IN  IF hits = {} THEN <<>>
        ELSE LET i == CHOOSE h \in hits : \A g \in hits : h <= g
                 q == i + Len(pre) + 2
             IN  <<msg[i + Len(pre)], SubSeq(msg, q + 1, QuoteEnd(msg, q) - 1)>>

\* re.search(r'class\s+(\w+)', line) or re.search(r'struct\s+(\w+)', line) finds a match
RECURSIVE SpaceRun(_, _)
SpaceRun(s, k) == IF k > Len(s) \/ ~IsSpace(s[k]) THEN 0 ELSE 1 + SpaceRun(s, k + 1)

DeclaresType(line, keyword) ==
    \E i \in 1..Len(line) :
        /\ line[i] = keyword
        /\ SpaceRun(line, i + 1) >= 1
        /\ WordRun(line, i + 1 + SpaceRun(line, i + 1)) >= 1

\* get_indentation: group 1 of re.match(r'^(\s*)', line)
get_indentation(line) == SubSeq(line, 1, SpaceRun(line, 1))

\* ------------------------------------------------------------------------
\* BuildErrorFixer (auto-fix-build-errors.py): the fix routines
\*
\* A routine takes and returns a record st:
\*   lines   file_lines, the in-memory list of the file's lines
\*   fixes   self.fixes_applied
\*   ret     the routine's return value
\*   raised  an exception (IndexError) left the routine
\*   orig    history: for each element of lines, its line number in the file
\*           as read (0 for an element inserted by this pass)
\*   edits   history: one record per list mutation
\* ------------------------------------------------------------------------

\* the message patterns fix_file_errors tests with `in`
P_brace        == <<"expected", " ", "'", "}", "'">>
P_access       == Sp(<<"extension", "of", "internal", "class", "cannot", "be", "declared", "public">>)
P_conformance  == Sp(<<"conformance", "of">>)
P_to_protocol  == Sp(<<"to", "protocol">>)
P_undecl_type  == Sp(<<"undeclared", "type">>)
P_undecl_ident == Sp(<<"use", "of", "undeclared", "identifier">>)
P_no_module    == Sp(<<"No", "such", "module">>)
P_not_conform  == Sp(<<"does", "not", "conform", "to", "protocol">>)
P_not_impl     == Sp(<<"does", "not", "implement", "required", "instance", "method">>)
P_convert      == Sp(<<"cannot", "convert", "value", "of", "type">>)
P_assign       == Sp(<<"cannot", "assign", "value", "of", "type">>)
P_property     == <<"property">>
P_not_init     == Sp(<<"not", "initialized">>)
P_sendable     == <<"'", "Sendable", "'", "-", "related", " ", "warnings">>

IsBraceError(e)       == Contains(e.message, P_brace)
IsAccessError(e)      == Contains(e.message, P_access)
IsConformanceError(e) == Contains(e.message, P_conformance) /\ Contains(e.message, P_to_protocol)

\* history record of one mutation of file_lines
\*   op       the number of the operation (entries of fixes_applied before it)
\*   routine  the fix routine
\*   diag     the line number the diagnostic reports
\*   byline   the index of the mutation is the diagnostic's line number
\*   target   the line number, in the file as read, of the element written or inserted before
\*   before   the text of that element before the mutation
EditRec(op, routine, diag, byline, target, before) ==
    [op |-> op, routine |-> routine, diag |-> diag, byline |-> byline, target |-> target, before |-> before]

\* an IndexError leaves the routine
Raise(st) == [st EXCEPT !.raised = TRUE, !.ret = FALSE]

\* file_lines[i] = new  (i 0-based, resolved as Python does), with its history
SetLine(st, i, new, routine, diag, byline) ==
    LET p == PyPos(st.lines, i)
    IN  [st EXCEPT !.lines[p] = new,
                   !.edits = Append(@, EditRec(Len(st.fixes), routine, diag, byline, st.orig[p], st.lines[p]))]

\* file_lines.insert(i, new), with its history
InsertLine(st, i, new, routine, diag, byline) ==
    LET p == InsertPos(st.lines, i)
    IN  [st EXCEPT !.lines = ListInsert(st.lines, i, new),
                   !.orig  = ListInsert(st.orig, i, 0),
                   !.edits = Append(@, EditRec(Len(st.fixes), routine, diag, byline,
                                               IF p < Len(st.lines) THEN st.orig[p + 1] ELSE 0,
                                               IF p < Len(st.lines) THEN st.lines[p + 1] ELSE <<>>))]

\* self.fixes_applied.append({'file': ..., 'line': ..., 'fix': ...})
Record(st, file_path, line, fix) ==
    [st EXCEPT !.fixes = Append(@, [file |-> file_path, line |-> line, fix |-> fix])]

RECURSIVE BraceLoop(_, _, _, _)
\* the loop `for error in brace_errors` of fix_missing_braces
BraceLoop(st, file_path, errs, missing) ==
    IF errs = <<>> THEN st
    ELSE LET line_idx == Head(errs).line - 1
         IN  IF line_idx < Len(st.lines)
             THEN IF ~InRange(st.lines, line_idx) THEN Raise(st)
                  ELSE LET cur == st.lines[PyPos(st.lines, line_idx)]
                           s1  == SetLine(st, line_idx, cur \o get_indentation(cur) \o <<"}", "\n">>,
                                          "fix_missing_braces", Head(errs).line, TRUE)
                           s2  == Record(s1, file_path, Head(errs).line, <<"Added missing closing brace">>)
                       IN  IF missing - 1 <= 0 THEN s2
                           ELSE BraceLoop(s2, file_path, Tail(errs), missing - 1)
             ELSE BraceLoop(st, file_path, Tail(errs), missing)

fix_missing_braces(st, file_path, errors) ==
    LET brace_errors == SelectSeq(errors, IsBraceError)
        content      == Join(st.lines)
        open_braces  == Count(content, "{")
        close_braces == Count(content, "}")
    IN  IF brace_errors = <<>> THEN [st EXCEPT !.ret = FALSE]
        ELSE IF open_braces > close_braces
             THEN LET s == BraceLoop(st, file_path, brace_errors, open_braces - close_braces)
                  IN  IF s.raised THEN s ELSE [s EXCEPT !.ret = TRUE]
             ELSE [st EXCEPT !.ret = FALSE]

RECURSIVE AccessLoop(_, _, _)
\* the loop `for error in access_errors` of fix_access_control; st.ret is `fixed`
AccessLoop(st, file_path, errs) ==
    IF errs = <<>> THEN st
    ELSE LET line_idx == Head(errs).line - 1
         IN  IF line_idx < Len(st.lines)
             THEN IF ~InRange(st.lines, line_idx) THEN Raise(st)
                  ELSE LET cur == st.lines[PyPos(st.lines, line_idx)]
                       IN  IF Contains(cur, <<"public", " ", "extension">>)
                           THEN LET s1 == SetLine(st, line_idx,
                                                  Replace(cur, <<"public", " ", "extension">>, <<"extension">>),
                                                  "fix_access_control", Head(errs).line, TRUE)
                                    s2 == Record(s1, file_path, Head(errs).line,
                                                 <<"Changed public extension to extension">>)
                                IN  AccessLoop([s2 EXCEPT !.ret = TRUE], file_path, Tail(errs))
                           ELSE AccessLoop(st, file_path, Tail(errs))
             ELSE AccessLoop(st, file_path, Tail(errs))

fix_access_control(st, file_path, errors) ==
    LET access_errors == SelectSeq(errors, IsAccessError)
    IN  IF access_errors = <<>> THEN [st EXCEPT !.ret = FALSE]
        ELSE AccessLoop([st EXCEPT !.ret = FALSE], file_path, access_errors)

\* the two lines fix_conformance_declarations inserts (without the indentation)
FixmeComment  == <<"//", " ", "FIXME", ":", " ">>
                 \o Sp(<<"This", "extension", "may", "conflict", "with", "future", "framework", "updates">>)
                 \o <<"\n">>
AvailableAttr == <<"@", "available", "(", "*", ",", " ", "deprecated", ",", " ", "message", ":", " ", "\"">>
                 \o Sp(<<"This", "conformance", "might", "conflict", "with", "future", "framework", "updates">>)
                 \o <<"\"", ")", "\n">>

RECURSIVE ConformanceLoop(_, _, _)
\* the loop `for error in conformance_errors` of fix_conformance_declarations
ConformanceLoop(st, file_path, errs) ==
    IF errs = <<>> THEN st
    ELSE LET line_idx == Head(errs).line - 1
             match    == ConformanceMatch(Head(errs).message)
         IN  IF line_idx < Len(st.lines) /\ match # <<>>
             THEN IF ~InRange(st.lines, line_idx) THEN Raise(st)
                  ELSE LET cur == st.lines[PyPos(st.lines, line_idx)]
                           indent == get_indentation(cur)
                       IN  IF Contains(cur, <<"extension">>)
                           THEN LET s1 == InsertLine(st, line_idx,
                                              indent \o FixmeComment,
                                              "fix_conformance_declarations", Head(errs).line, TRUE)
                                    s2 == InsertLine(s1, line_idx + 1,
                                              indent \o AvailableAttr,
                                              "fix_conformance_declarations", Head(errs).line, TRUE)
                                    s3 == Record(s2, file_path, Head(errs).line,
                                              <<"Added @available attribute to prevent conflicts for">>
                                              \o match[1] \o <<":">> \o match[2])
                                IN  ConformanceLoop([s3 EXCEPT !.ret = TRUE], file_path, Tail(errs))
                           ELSE ConformanceLoop(st, file_path, Tail(errs))
             ELSE ConformanceLoop(st, file_path, Tail(errs))

fix_conformance_declarations(st, file_path, errors) ==
    LET conformance_errors == SelectSeq(errors, IsConformanceError)
    IN  IF conformance_errors = <<>> THEN [st EXCEPT !.ret = FALSE]
        ELSE ConformanceLoop([st EXCEPT !.ret = FALSE], file_path, conformance_errors)

\* the last index i (0-based) with file_lines[i].strip().startswith('import '), -1 when none
LastImportLine(lines) ==
    LET imps == {i \in 1..Len(lines) : StartsWith(Strip(lines[i]), <<"import", " ">>)}
    IN  IF imps = {} THEN -1 ELSE (CHOOSE i \in imps : \A j \in imps : j <= i) - 1

\* os.path.basename(path); a path is its sequence of components, "/" first when absolute
Basename(path) == path[Len(path)]

\* os.path.isabs(path)
IsAbs(path) == Head(path) = "/"

\* str(file_path).endswith('.swift')
IsSwiftPath(file_path) == Basename(file_path) \in {"A.swift", "B.swift", "M.swift"}

fix_add_preconcurrency(st, file_path, line, message) ==
    LET module_name == QuotedAfter(message, <<"from", " ", "module", " ">>)
        hits == {i \in 1..Len(st.lines) : StartsWith(Strip(st.lines[i]), <<"import", " ">> \o module_name)}
    IN  IF module_name = <<>> THEN [st EXCEPT !.ret = FALSE]
        ELSE IF hits = {} THEN [st EXCEPT !.ret = FALSE]
        ELSE LET i  == CHOOSE h \in hits : \A g \in hits : h <= g
                 s1 == SetLine(st, i - 1, <<"@", "preconcurrency", " ", "import", " ">> \o module_name \o <<"\n">>,
                               "fix_add_preconcurrency", line + 1, FALSE)
                 s2 == Record(s1, file_path, i, <<"Added @preconcurrency to import">> \o module_name)
             IN  [s2 EXCEPT !.ret = TRUE]

fix_undeclared_identifier(st, file_path, line, message) ==
    LET match == UndeclaredMatch(message)
        last_import_line == LastImportLine(st.lines)
    IN  IF match = <<>> THEN [st EXCEPT !.ret = FALSE]
        ELSE IF IsSwiftPath(file_path) /\ match[1] = "type" /\ last_import_line # -1
        THEN LET s1 == InsertLine(st, last_import_line + 1, <<"import", " ">> \o match[2] \o <<"\n">>,
                                  "fix_undeclared_identifier", line + 1, FALSE)
                 s2 == Record(s1, file_path, last_import_line + 1, <<"Added import for">> \o match[2])
             IN  [s2 EXCEPT !.ret = TRUE]
        ELSE [st EXCEPT !.ret = FALSE]

\* the loop `while i < len(file_lines) and (... startswith('//') or ... == '')` of fix_missing_import
RECURSIVE SkipLeading(_, _)
SkipLeading(lines, i) ==
    IF i < Len(lines) /\ (StartsWith(Strip(lines[i + 1]), <<"//">>) \/ Strip(lines[i + 1]) = <<>>)
    THEN SkipLeading(lines, i + 1) ELSE i

fix_missing_import(st, file_path, line, message) ==
    LET module_name == QuotedAfter(message, <<"No", " ", "such", " ", "module", " ">>)
        last_import_line == LastImportLine(st.lines)
        inserted_at == IF last_import_line # -1 THEN last_import_line + 1 ELSE SkipLeading(st.lines, 0)
    IN  IF module_name = <<>> THEN [st EXCEPT !.ret = FALSE]
        ELSE LET s1 == InsertLine(st, inserted_at, <<"import", " ">> \o module_name \o <<"\n">>,
                                  "fix_missing_import", line + 1, FALSE)
                 s2 == Record(s1, file_path, inserted_at + 1, <<"Added import for module">> \o module_name)
             IN  [s2 EXCEPT !.ret = TRUE]

\* the loop `for i in range(line, -1, -1)` of fix_missing_protocol_implementation:
\* a class or struct declaration is found at or above the line
HasClassName(lines, line) ==
    \E i \in 0..line : i < Len(lines)
        /\ (DeclaresType(lines[i + 1], "class") \/ DeclaresType(lines[i + 1], "struct"))

\* the stub fix_missing_protocol_implementation generates
Stub(indent, method_name) ==
    <<"\n">> \o indent \o <<"//", " ", "FIXME", ":", " ", "Implement", " ", "required", " ", "protocol", " ", "method", "\n">>
    \o indent \o <<"func", " ">> \o method_name \o <<" ", "{", "\n">>
    \o indent \o <<" ", " ", " ", " ", "//", " ", "Implementation", " ", "needed", "\n">>
    \o indent \o <<"}", "\n">>

fix_missing_protocol_implementation(st, file_path, line, message) ==
    LET method_name == QuotedAfter(message, P_not_impl \o <<" ">>)
        hits == {i \in line..(Len(st.lines) - 1) : Contains(st.lines[i + 1], <<"}">>)}
    IN  IF method_name = <<>> THEN [st EXCEPT !.ret = FALSE]
        ELSE IF ~HasClassName(st.lines, line) THEN [st EXCEPT !.ret = FALSE]
        ELSE IF ~InRange(st.lines, line) THEN Raise(st)
        ELSE IF hits = {} THEN [st EXCEPT !.ret = FALSE]
        ELSE LET i  == CHOOSE h \in hits : \A g \in hits : h <= g
                 s1 == SetLine(st, i, Stub(get_indentation(st.lines[PyPos(st.lines, line)]), method_name)
                                      \o st.lines[i + 1],
                               "fix_missing_protocol_implementation", line + 1, FALSE)
                 s2 == Record(s1, file_path, i + 1, <<"Added stub implementation for method">> \o method_name)
             IN  [s2 EXCEPT !.ret = TRUE]

\* attempt_add_as_cast; its return value is not used by the caller
attempt_add_as_cast(st, file_path, line, from_type, to_type) ==
    IF line < 0 \/ line >= Len(st.lines) THEN st
    ELSE LET original_line == st.lines[line + 1]
         IN  IF Count(original_line, "=") # 1 THEN st
             ELSE LET parts == SplitOnce(original_line, "=")
                      left  == Strip(parts[1])
                      right == Strip(parts[2])
                  IN  IF ~EndsWith(right, <<")">>) /\ ~Contains(right, <<" ", "as", " ">>)
                      THEN Record(SetLine(st, line, left \o <<" ", "=", " ">> \o right \o <<" ", "as", " ">>
                                                    \o to_type \o <<"\n">>,
                                          "attempt_add_as_cast", line + 1, TRUE),
                                  file_path, line + 1,
                                  <<"Added explicit cast from">> \o from_type \o <<"to">> \o to_type)
                      ELSE st

fix_type_mismatch(st, file_path, line, message) ==
    LET match == TypeMismatchMatch(message)
    IN  IF match = <<>> THEN [st EXCEPT !.ret = FALSE]
        ELSE IF match[2] = <<"String">> /\ match[4] = <<"String", "?">>
        THEN [attempt_add_as_cast(st, file_path, line, match[2], match[4]) EXCEPT !.ret = TRUE]
        ELSE [st EXCEPT !.ret = FALSE]

\* the lines before and after the diagnostic that fix_missing_initialization searches
Window == 10

\* a lexeme the class [^{}=\n] of the declaration pattern accepts
TypeChar(t) == t \notin {"{", "}", "=", "\n"}

RECURSIVE TypeRun(_, _)
\* the length of the run of [^{}=\n] lexemes that starts at position k
TypeRun(s, k) == IF k > Len(s) \/ ~TypeChar(s[k]) THEN 0 ELSE 1 + TypeRun(s, k + 1)

\* re.search(rf"{property_name}\s*:\s*([^{{}}=\n]+)", line):
\* [found |-> a match exists, type |-> group(1).strip()]
DeclarationMatch(line, property_name) ==
    LET colon(i) == i + Len(property_name) + SpaceRun(line, i + Len(property_name))
        \* the start of group 1: \s* is greedy and gives back until a type lexeme follows
        starts(i) == {g \in (colon(i) + 1)..(colon(i) + 1 + SpaceRun(line, colon(i) + 1)) : TypeRun(line, g) >= 1}
        ok(i) == /\ MatchAt(line, i, property_name)
                 /\ colon(i) <= Len(line) /\ line[colon(i)] = ":"
                 /\ starts(i) # {}
        hits == {i \in 1..Len(line) : ok(i)}
    IN  IF hits = {} THEN [found |-> FALSE, type |-> <<>>]
        ELSE LET i == CHOOSE h \in hits : \A g \in hits : h <= g
                 g == CHOOSE a \in starts(i) : \A b \in starts(i) : b <= a
             IN  [found |-> TRUE, type |-> Strip(SubSeq(line, g, g + TypeRun(line, g) - 1))]

\* r"property '([^']+)' not initialized": group 1, <<>> when no match
PropertyMatch(msg) ==
    LET pre == <<"property", " ">>
        ok(i) == /\ MatchAt(msg, i, pre)
                 /\ QuoteEnd(msg, i + Len(pre)) # 0
                 /\ MatchAt(msg, QuoteEnd(msg, i + Len(pre)) + 1, <<" ", "not", " ", "initialized">>)
        hits == {i \in 1..Len(msg) : ok(i)}
    IN  IF hits = {} THEN <<>>
        ELSE LET i == CHOOSE h \in hits : \A g \in hits : h <= g
             IN  SubSeq(msg, i + Len(pre) + 1, QuoteEnd(msg, i + Len(pre)) - 1)

get_default_value_for_type(type_name) ==
    LET t == Strip(type_name)
    IN  IF Contains(t, <<"String">>) THEN <<"\"\"">>
        ELSE IF Contains(t, <<"Int">>) THEN <<"0">>
        ELSE IF Contains(t, <<"Bool">>) THEN <<"false">>
        ELSE IF Contains(t, <<"Double">>) \/ Contains(t, <<"Float">>) THEN <<"0.0">>
        ELSE IF Contains(t, <<"Array">>) \/ Contains(t, <<"[">>) THEN <<"[", "]">>
        ELSE IF Contains(t, <<"Dictionary">>) \/ Contains(t, <<"[", ":">>) THEN <<"[", ":", "]">>
        ELSE IF Contains(t, <<"?">>) THEN <<"nil">>
        ELSE t \o <<"(", ")">>

fix_missing_initialization(st, file_path, line, message) ==
    LET property_name == PropertyMatch(message)
        lo == IF line - Window > 0 THEN line - Window ELSE 0
        hi == IF Len(st.lines) < line + Window THEN Len(st.lines) ELSE line + Window
        \* the lines (0-based) of the window on which the search loop breaks
        hits == {i \in lo..(hi - 1) : /\ Contains(st.lines[i + 1], property_name)
                                      /\ DeclarationMatch(st.lines[i + 1], property_name).found}
    IN  IF property_name = <<>> THEN [st EXCEPT !.ret = FALSE]
        ELSE IF hits = {} THEN [st EXCEPT !.ret = FALSE]
        ELSE LET declaration_line == CHOOSE h \in hits : \A g \in hits : h <= g
                 original_line == st.lines[declaration_line + 1]
                 property_type == DeclarationMatch(original_line, property_name).type
                 default_value == get_default_value_for_type(property_type)
             IN  IF property_type # <<>> /\ ~Contains(original_line, <<"=">>)
                 THEN LET s1 == SetLine(st, declaration_line,
                                        RStrip(original_line) \o <<" ", "=", " ">> \o default_value \o <<"\n">>,
                                        "fix_missing_initialization", line + 1, FALSE)
                          s2 == Record(s1, file_path, declaration_line + 1,
                                       <<"Added initialization for property">> \o property_name \o <<":">>
                                       \o property_type \o <<"=">> \o default_value)
                      IN  [s2 EXCEPT !.ret = TRUE]
                 ELSE [st EXCEPT !.ret = FALSE]

\* ------------------------------------------------------------------------
\* EnhancedBuildErrorAnalyzer (enhanced-error-analyzer.py): the classifier
\* ------------------------------------------------------------------------

\* str.lower() of one lexeme
Lower(t) ==
    CASE t \in {"Undeclared", "UNDECLARED"} -> "undeclared"
      [] t \in {"Type", "TYPE"} -> "type"
      [] t \in {"Identifier", "IDENTIFIER"} -> "identifier"
      [] t \in {"Cannot", "CANNOT"} -> "cannot"
      [] t \in {"Convert", "CONVERT"} -> "convert"
      [] t \in {"Assign", "ASSIGN"} -> "assign"
      [] t \in {"Value", "VALUE"} -> "value"
      [] t \in {"Of", "OF"} -> "of"
      [] t \in {"Property", "PROPERTY"} -> "property"
      [] t \in {"Not", "NOT"} -> "not"
      [] t \in {"Initialized", "INITIALIZED"} -> "initialized"
      [] OTHER -> t

\* message.lower()
LowerSeq(s) == [i \in 1..Len(s) |-> Lower(s[i])]

\* re.search(r"undeclared (type|identifier)", message, re.IGNORECASE)
RE_undeclared(message) ==
    LET m == LowerSeq(message)
    IN  Contains(m, <<"undeclared", " ", "type">>) \/ Contains(m, <<"undeclared", " ", "identifier">>)

\* re.search(r"cannot (convert|assign) value of type", message, re.IGNORECASE)
RE_mismatch(message) ==
    LET m == LowerSeq(message)
    IN  Contains(m, P_convert) \/ Contains(m, P_assign)

\* re.search(r"property ['\"].*['\"] not initialized", message, re.IGNORECASE)
RE_not_initialized(message) ==
    LET m == LowerSeq(message)
    IN  \E i, j \in 1..Len(m) :
            /\ MatchAt(m, i, <<"property", " ">>)
            /\ i + 2 < j
            /\ m[i + 2] \in {"'", "\""}
            /\ m[j] \in {"'", "\""}
            /\ \A k \in (i + 3)..(j - 1) : m[k] # "\n"
            /\ MatchAt(m, j + 1, <<" ", "not", " ", "initialized">>)

\* _categorize_issue with the missing_implementation rule tested before the
\* protocol_conformance rule
_categorize_issue_reordered(message) ==
    IF RE_undeclared(message) THEN "undeclared_identifier"
    ELSE IF Contains(message, P_no_module) THEN "missing_import"
    ELSE IF Contains(message, Sp(<<"does", "not", "implement", "required">>)) THEN "missing_implementation"
    ELSE IF Contains(message, P_not_conform) THEN "protocol_conformance"
    ELSE IF Contains(message, P_conformance) /\ Contains(message, P_to_protocol) THEN "conflicting_conformance"
    ELSE IF Contains(message, <<"'", "override", "'", " ">>
                              \o Sp(<<"can", "only", "be", "specified", "on", "class", "members">>))
         THEN "invalid_override"
    ELSE IF RE_mismatch(message) THEN "type_mismatch"
    ELSE IF Contains(message, Sp(<<"nil", "coalescing", "operator">>)) THEN "unnecessary_nil_coalescing"
    ELSE IF RE_not_initialized(message) THEN "initialization"
    ELSE IF Contains(message, P_brace) THEN "missing_brace"
    ELSE IF Contains(message, Sp(<<"expected", "declaration">>)) THEN "invalid_declaration"
    ELSE IF Contains(message, P_access) THEN "access_control"
    ELSE IF Contains(message, P_sendable) \/ Contains(message, <<"@", "preconcurrency">>) THEN "concurrency"
    ELSE "other"

_categorize_issue(message) ==
    IF RE_undeclared(message) THEN "undeclared_identifier"
    ELSE IF Contains(message, P_no_module) THEN "missing_import"
    ELSE IF Contains(message, P_not_conform) THEN "protocol_conformance"
    ELSE IF Contains(message, Sp(<<"does", "not", "implement", "required">>)) THEN "missing_implementation"
    ELSE IF Contains(message, P_conformance) /\ Contains(message, P_to_protocol) THEN "conflicting_conformance"
    ELSE IF Contains(message, <<"'", "override", "'", " ">>
                              \o Sp(<<"can", "only", "be", "specified", "on", "class", "members">>))
         THEN "invalid_override"
    ELSE IF RE_mismatch(message) THEN "type_mismatch"
    ELSE IF Contains(message, Sp(<<"nil", "coalescing", "operator">>)) THEN "unnecessary_nil_coalescing"
    ELSE IF RE_not_initialized(message) THEN "initialization"
    ELSE IF Contains(message, P_brace) THEN "missing_brace"
    ELSE IF Contains(message, Sp(<<"expected", "declaration">>)) THEN "invalid_declaration"
    ELSE IF Contains(message, P_access) THEN "access_control"
    ELSE IF Contains(message, P_sendable) \/ Contains(message, <<"@", "preconcurrency">>) THEN "concurrency"
    ELSE "other"

\* ------------------------------------------------------------------------
\* EnhancedBuildErrorAnalyzer: parse_errors and its helpers
\*
\* A dict (defaultdict, Counter) is the sequence of its items in insertion
\* order: <<[key |-> k, val |-> v], ...>>.  None is <<>> for a file and -1 for
\* a line or a column.
\* ------------------------------------------------------------------------

\* d[k], default when k is not a key
DictGet(d, k, default) ==
    LET at == {i \in 1..Len(d) : d[i].key = k}
    IN  IF at = {} THEN default ELSE d[CHOOSE i \in at : TRUE].val

\* d[k] = v
DictSet(d, k, v) ==
    LET at == {i \in 1..Len(d) : d[i].key = k}
    IN  IF at = {} THEN Append(d, [key |-> k, val |-> v])
        ELSE [d EXCEPT ![CHOOSE i \in at : TRUE].val = v]

\* d[k].append(x) on a defaultdict(list)
DictAppend(d, k, x) == DictSet(d, k, Append(DictGet(d, k, <<>>), x))

\* d[k] += 1 on a Counter
DictIncr(d, k) == DictSet(d, k, DictGet(d, k, 0) + 1)

\* _normalize_path: the three re.sub calls, on the components of the path
_normalize_path(path) ==
    LET n1 == IF Len(path) >= 7 /\ path[1] = "/" /\ path[2] = "Users" /\ path[4] = "work"
              THEN SubSeq(path, 7, Len(path)) ELSE path
        n2 == IF Len(n1) >= 6 /\ n1[1] = "/" /\ n1[2] = "Users" /\ n1[3] = "runner"
              THEN SubSeq(n1, 6, Len(n1)) ELSE n1
        n3 == IF Len(n2) >= 2 /\ n2[1] = "workspace" THEN Tail(n2) ELSE n2
    IN  n3

\* the lexeme that stands for the backquote character
Backquote == "BACKQUOTE"

RECURSIVE _get_code_context(_)
\* re.findall of a backquote, ([^backquote]+), a backquote; None (<<>>) when nothing is found
_get_code_context(message) ==
    LET opens == {i \in 1..(Len(message) - 2) :
                     /\ message[i] = Backquote /\ message[i + 1] # Backquote
                     /\ \E j \in (i + 2)..Len(message) : message[j] = Backquote}
    IN  IF opens = {} THEN <<>>
        ELSE LET i == CHOOSE a \in opens : \A b \in opens : a <= b
                 j == CHOOSE a \in (i + 2)..Len(message) :
                          message[a] = Backquote /\ \A b \in (i + 2)..(a - 1) : message[b] # Backquote
             IN  <<SubSeq(message, i + 1, j - 1)>> \o _get_code_context(SubSeq(message, j + 1, Len(message)))

\* lines 177-185: the issue dict of a located diagnostic
Issue(d) ==
    [file |-> _normalize_path(d.file), line |-> d.line, column |-> d.column, severity |-> d.severity,
     message |-> Strip(d.message), type |-> _categorize_issue(Strip(d.message)),
     code_context |-> _get_code_context(Strip(d.message))]

\* lines 212-226: the issue dict of the i-th (0-based) error of a list given to _process_other_errors
OtherIssue(d, error_type, i) ==
    [file |-> <<>>, line |-> -1, column |-> -1, severity |-> "error",
     message |-> IF d.kind = "linker" THEN d.head \o <<":", " ">> \o Strip(d.message) ELSE Strip(d.message),
     type |-> error_type, id |-> <<error_type, i>>]

\* the analyzer's accumulators, as one record
\*   errors, warnings, notes, errors_by_file, warnings_by_file, error_types, warning_types, related_errors

RECURSIVE AddIssuesStateDependent(_, _)
\* AddIssues with a classification that looks at the accumulated counters:
\* a category already counted is reported as "other"
AddIssuesStateDependent(an, ds) ==
    IF ds = <<>> THEN an
    ELSE LET plain == Issue(Head(ds))
             issue == IF DictGet(an.error_types, plain.type, 0) > 0
                      THEN [plain EXCEPT !.type = "other"] ELSE plain
             an1 == IF issue.severity = "error"
                    THEN [an EXCEPT !.errors = Append(@, issue),
                                    !.errors_by_file = DictAppend(@, issue.file, issue),
                                    !.error_types = DictIncr(@, issue.type)]
                    ELSE IF issue.severity = "warning"
                    THEN [an EXCEPT !.warnings = Append(@, issue),
                                    !.warnings_by_file = DictAppend(@, issue.file, issue),
                                    !.warning_types = DictIncr(@, issue.type)]
                    ELSE [an EXCEPT !.notes = Append(@, issue)]
         IN  AddIssuesStateDependent(an1, Tail(ds))

RECURSIVE AddIssues(_, _)
\* lines 176-196: `for ... in swift_issues + objc_issues`
AddIssues(an, ds) ==
    IF ds = <<>> THEN an
    ELSE LET issue == Issue(Head(ds))
             an1 == IF issue.severity = "error"
                    THEN [an EXCEPT !.errors = Append(@, issue),
                                    !.errors_by_file = DictAppend(@, issue.file, issue),
                                    !.error_types = DictIncr(@, issue.type)]
                    ELSE IF issue.severity = "warning"
                    THEN [an EXCEPT !.warnings = Append(@, issue),
                                    !.warnings_by_file = DictAppend(@, issue.file, issue),
                                    !.warning_types = DictIncr(@, issue.type)]
                    ELSE [an EXCEPT !.notes = Append(@, issue)]
         IN  AddIssues(an1, Tail(ds))

RECURSIVE ProcessOtherUncounted(_, _, _, _)
\* _process_other_errors without the increment of error_types
ProcessOtherUncounted(an, ds, error_type, i) ==
    IF ds = <<>> THEN an
    ELSE ProcessOtherUncounted([an EXCEPT !.errors = Append(@, OtherIssue(Head(ds), error_type, i))],
                               Tail(ds), error_type, i + 1)

RECURSIVE ProcessOther(_, _, _, _)
\* _process_other_errors(errors, error_type), from index i
ProcessOther(an, ds, error_type, i) ==
    IF ds = <<>> THEN an
    ELSE ProcessOther([an EXCEPT !.errors = Append(@, OtherIssue(Head(ds), error_type, i)),
                                 !.error_types = DictIncr(@, error_type)],
                      Tail(ds), error_type, i + 1)

\* the proximity window of _link_related_errors
ProximityWindow == 5

RECURSIVE InsertAsc(_, _)
\* e put into a list sorted by line ascending, after the elements of equal line
InsertAsc(sorted, e) ==
    IF sorted = <<>> THEN <<e>>
    ELSE IF Head(sorted).line <= e.line THEN <<Head(sorted)>> \o InsertAsc(Tail(sorted), e)
    ELSE <<e>> \o sorted

RECURSIVE SortByLineAsc(_)
\* sorted(errors, key=lambda x: x.get('line', 0) or 0): stable
SortByLineAsc(errs) ==
    IF errs = <<>> THEN <<>>
    ELSE InsertAsc(SortByLineAsc(SubSeq(errs, 1, Len(errs) - 1)), errs[Len(errs)])

RECURSIVE ExtendGroup(_, _, _)
\* for err in group: self.related_errors[group_id].append(err)
ExtendGroup(related, group_id, group) ==
    IF group = <<>> THEN related
    ELSE ExtendGroup(DictAppend(related, group_id, Head(group)), group_id, Tail(group))

\* lines 323-328 and 331-334: store current_group when it has several errors
StoreGroup(related, file_path, current_group) ==
    IF Len(current_group) > 1
    THEN ExtendGroup(related, <<"group", file_path, current_group[1].line>>, current_group)
    ELSE related

\* abs(a - b)
AbsDiff(a, b) == IF a >= b THEN a - b ELSE b - a

RECURSIVE ProximityLoopFromFirst(_, _, _, _)
\* ProximityLoop with the distance taken from the first member of the group
ProximityLoopFromFirst(related, file_path, sorted_errors, current_group) ==
    IF sorted_errors = <<>> THEN StoreGroup(related, file_path, current_group)
    ELSE LET error == Head(sorted_errors)
         IN  IF current_group = <<>>
                \/ AbsDiff(error.line, current_group[1].line) <= ProximityWindow
             THEN ProximityLoopFromFirst(related, file_path, Tail(sorted_errors), Append(current_group, error))
             ELSE ProximityLoopFromFirst(StoreGroup(related, file_path, current_group), file_path,
                                         Tail(sorted_errors), <<error>>)

RECURSIVE ProximityLoop(_, _, _, _)
\* lines 319-334: `for error in sorted_errors`, then the last group
ProximityLoop(related, file_path, sorted_errors, current_group) ==
    IF sorted_errors = <<>> THEN StoreGroup(related, file_path, current_group)
    ELSE LET error == Head(sorted_errors)
         IN  IF current_group = <<>>
                \/ AbsDiff(error.line, current_group[Len(current_group)].line) <= ProximityWindow
             THEN ProximityLoop(related, file_path, Tail(sorted_errors), Append(current_group, error))
             ELSE ProximityLoop(StoreGroup(related, file_path, current_group), file_path,
                                Tail(sorted_errors), <<error>>)

RECURSIVE LinkByFile(_, _)
\* lines 309-334: `for file_path, errors in self.errors_by_file.items()`
LinkByFile(related, by_file) ==
    IF by_file = <<>> THEN related
    ELSE IF Len(Head(by_file).val) <= 1 THEN LinkByFile(related, Tail(by_file))
    ELSE LinkByFile(ProximityLoop(related, Head(by_file).key, SortByLineAsc(Head(by_file).val), <<>>),
                    Tail(by_file))

RECURSIVE LinkByType(_, _, _)
\* lines 337-343: `for error_type in self.error_types`
LinkByType(related, types, errs) ==
    IF types = <<>> THEN related
    ELSE LET error_type == Head(types).key
             matching_errors == SelectSeq(errs, LAMBDA e : e.type = error_type)
         IN  IF error_type \notin {"other", "unknown"} /\ Head(types).val > 1 /\ Len(matching_errors) > 1
             THEN LinkByType(ExtendGroup(related, <<"type", error_type>>, matching_errors), Tail(types), errs)
             ELSE LinkByType(related, Tail(types), errs)

_link_related_errors(an) ==
    [an EXCEPT !.related_errors = LinkByType(LinkByFile(an.related_errors, an.errors_by_file),
                                             an.error_types, an.errors)]

\* ------------------------------------------------------------------------
\* BuildErrorFixer: state
\* ------------------------------------------------------------------------
VARIABLES
    disk,            \* the source tree under repo_root: path -> file content
    errors,          \* self.errors
    errors_by_file,  \* self.errors_by_file, in insertion order: <<[file, errors]>>
    fixes_applied,   \* self.fixes_applied
    pc,              \* position of main(): "start", "parsed", "fixing", "done", "crashed"
    fix_pos,         \* fix_errors: position of `for file_path, errors in self.errors_by_file.items()`
    fixes_count,     \* fix_errors: the local counter fixes_applied
    result,          \* the value fix_errors returned
    passes,          \* history: one record per fix_file_errors call
    analyzer,        \* the EnhancedBuildErrorAnalyzer object: a record of its fields
    marks,           \* history: len(self.errors) after each parse_errors call on the analyzer
    consumed,        \* history: the number of diagnostics the analyzer was given
    call,            \* a single routine called on its own: the routine and its arguments
    out              \* the outcome of that call

fixer_vars == <<disk, errors, errors_by_file, fixes_applied, pc, fix_pos, fixes_count, result, passes>>

analyzer_vars == <<analyzer, marks, consumed>>

unit_vars == <<call, out>>

\* the files of the tree in the order os.walk(repo_root) meets them
WalkOrder == << <<"A.swift">>, <<"sub", "B.swift">> >>

\* the files open() cannot read (no read permission)
Unreadable == { <<"sub", "B.swift">> }

\* Path.exists()
Exists(path) == path \in DOMAIN disk

\* lines 99-129 of fix_file_errors in a tree whose files os.walk meets in the order walk,
\* with the paths of existing: the file the diagnostics of file_path are applied to, <<>>
\* when none is found
ResolveIn(walk, existing, file_path) ==
    LET same == SelectSeq(walk, LAMBDA q : q \in existing /\ Basename(q) = Basename(file_path))
        full_path == IF ~IsAbs(file_path) THEN file_path
                     ELSE IF same # <<>> THEN same[1] ELSE file_path
    IN  IF full_path \in existing THEN full_path
        ELSE IF same # <<>> THEN same[1] ELSE <<>>

\* lines 99-129 of fix_file_errors on the tree of the run
Resolve(file_path) == ResolveIn(WalkOrder, DOMAIN disk, file_path)

RECURSIVE InsertDesc(_, _)
\* e put into a list sorted by line descending, after the elements of equal line
InsertDesc(sorted, e) ==
    IF sorted = <<>> THEN <<e>>
    ELSE IF Head(sorted).line >= e.line THEN <<Head(sorted)>> \o InsertDesc(Tail(sorted), e)
    ELSE <<e>> \o sorted

RECURSIVE SortByLineDesc(_)
\* errors.sort(key=lambda x: x['line'], reverse=True): stable
SortByLineDesc(errs) ==
    IF errs = <<>> THEN <<>>
    ELSE InsertDesc(SortByLineDesc(SubSeq(errs, 1, Len(errs) - 1)), errs[Len(errs)])

\* `if fixed: needs_save = True; fixes_applied += 1` after a routine turned st0 into st1
Counted(st0, st1) ==
    IF st1.raised \/ ~st1.ret THEN st1
    ELSE [st1 EXCEPT !.needs_save = TRUE, !.count = st0.count + 1]

\* line 177-180: the diagnostic was handled by a file-level fix
SkippedByFileLevel(message, flags) ==
    \/ flags.brace /\ Contains(message, P_brace)
    \/ flags.access /\ Contains(message, P_access)
    \/ flags.conformance /\ Contains(message, P_conformance) /\ Contains(message, P_to_protocol)

\* lines 186-207: the routine the if/elif chain selects for a message
Dispatch(message) ==
    IF Contains(message, P_undecl_type) \/ Contains(message, P_undecl_ident) THEN "fix_undeclared_identifier"
    ELSE IF Contains(message, P_no_module) THEN "fix_missing_import"
    ELSE IF Contains(message, P_not_conform) \/ Contains(message, P_not_impl)
         THEN "fix_missing_protocol_implementation"
    ELSE IF Contains(message, P_convert) \/ Contains(message, P_assign) THEN "fix_type_mismatch"
    ELSE IF Contains(message, P_property) /\ Contains(message, P_not_init) THEN "fix_missing_initialization"
    ELSE IF Contains(message, P_sendable) THEN "fix_add_preconcurrency"
    ELSE "none"

\* the call the chain makes
ApplyFix(st, full_path, line, message) ==
    LET routine == Dispatch(message)
    IN  CASE routine = "fix_undeclared_identifier" -> fix_undeclared_identifier(st, full_path, line, message)
          [] routine = "fix_missing_import" -> fix_missing_import(st, full_path, line, message)
          [] routine = "fix_missing_protocol_implementation" ->
                 fix_missing_protocol_implementation(st, full_path, line, message)
          [] routine = "fix_type_mismatch" -> fix_type_mismatch(st, full_path, line, message)
          [] routine = "fix_missing_initialization" -> fix_missing_initialization(st, full_path, line, message)
          [] routine = "fix_add_preconcurrency" -> fix_add_preconcurrency(st, full_path, line, message)
          [] OTHER -> [st EXCEPT !.ret = FALSE]

RECURSIVE IssueLoop(_, _, _, _)
\* lines 172-211: `for error in errors`
IssueLoop(st, full_path, errs, flags) ==
    IF errs = <<>> \/ st.raised THEN st
    ELSE IF SkippedByFileLevel(Head(errs).message, flags) THEN IssueLoop(st, full_path, Tail(errs), flags)
    ELSE IssueLoop(Counted(st, ApplyFix(st, full_path, Head(errs).line - 1, Head(errs).message)),
                   full_path, Tail(errs), flags)

\* lines 147-150: which file-level fixes the diagnostics ask for
FileLevelFlags(sorted) ==
    [brace       |-> \E i \in 1..Len(sorted) : IsBraceError(sorted[i]),
     access      |-> \E i \in 1..Len(sorted) : IsAccessError(sorted[i]),
     conformance |-> \E i \in 1..Len(sorted) : IsConformanceError(sorted[i])]

\* the state of a pass that has read file_lines and changed nothing yet
PassStart(file_lines, fixes) ==
    [lines |-> file_lines, orig |-> [i \in 1..Len(file_lines) |-> i], fixes |-> fixes,
     edits |-> <<>>, ret |-> FALSE, raised |-> FALSE, count |-> 0, needs_save |-> FALSE]

\* lines 153-157
FileLevelBraces(st, full_path, sorted, flags) ==
    IF flags.brace THEN Counted(st, fix_missing_braces(st, full_path, sorted)) ELSE st

\* lines 159-163
FileLevelAccess(st, full_path, sorted, flags) ==
    IF st.raised \/ ~flags.access THEN st
    ELSE Counted(st, fix_access_control(st, full_path, sorted))

\* lines 165-169
FileLevelConformance(st, full_path, sorted, flags) ==
    IF st.raised \/ ~flags.conformance THEN st
    ELSE Counted(st, fix_conformance_declarations(st, full_path, sorted))

\* lines 147-211 of fix_file_errors, on the sorted diagnostics
FixSorted(full_path, file_lines, sorted, flags, fixes) ==
    IssueLoop(FileLevelConformance(
                  FileLevelAccess(
                      FileLevelBraces(PassStart(file_lines, fixes), full_path, sorted, flags),
                      full_path, sorted, flags),
                  full_path, sorted, flags),
              full_path, sorted, flags)

\* lines 140-211 of fix_file_errors, on the lines read from full_path
FixLines(full_path, file_lines, sorted, fixes) ==
    FixSorted(full_path, file_lines, sorted, FileLevelFlags(sorted), fixes)

\* fix_file_errors(file_path, errors): what the call does, as a record
\*   located    a readable file was found
\*   path       full_path
\*   read       the lines read from it
\*   sorted     errors after the in-place sort
\*   fixes_before  self.fixes_applied when the call started
\*   st         the state of the pass when it ended (returned or raised)
PassRecord(file_path, full_path, read, sorted, fixes, st) ==
    [key |-> file_path, located |-> TRUE, path |-> full_path, read |-> read,
     sorted |-> sorted, fixes_before |-> fixes, st |-> st]

\* the pass over a file that was found and read
ReadAndFix(file_path, full_path, read, sorted, fixes) ==
    PassRecord(file_path, full_path, read, sorted, fixes, FixLines(full_path, read, sorted, fixes))

\* the pass over a file that was not found or not read: lines 116-129 and 136-138 return 0
NotLocated(file_path, full_path, errs, fixes) ==
    [key |-> file_path, located |-> FALSE, path |-> full_path, read |-> <<>>, sorted |-> errs,
     fixes_before |-> fixes,
     st |-> [lines |-> <<>>, orig |-> <<>>, fixes |-> fixes, edits |-> <<>>, ret |-> FALSE,
             raised |-> FALSE, count |-> 0, needs_save |-> FALSE]]

FixResolved(file_path, full_path, errs, fixes) ==
    IF full_path = <<>> \/ full_path \in Unreadable
    THEN NotLocated(file_path, full_path, errs, fixes)
    ELSE ReadAndFix(file_path, full_path, SplitLines(disk[full_path]), SortByLineDesc(errs), fixes)

FixFile(file_path, errs, fixes) == FixResolved(file_path, Resolve(file_path), errs, fixes)

\* ------------------------------------------------------------------------
\* BuildErrorFixer: inputs
\* ------------------------------------------------------------------------

\* the largest line number a diagnostic of the log reports
MaxLine == 5

\* the numbers of diagnostics a log holds
LogLengths == {0, 1, 2}

\* contents of A.swift
File_ext   == <<"import", " ", "A", "\n",
                "public", " ", "extension", " ", "T", " ", "{", "\n",
                " ", " ", "var", " ", "n", ":", " ", "Int", "\n",
                "x", " ", "=", " ", "y", "\n">>
File_class == <<"class", " ", "T", " ", "{", "\n",
                "x", " ", "=", " ", "y", "\n",
                "}", "\n">>
File_empty == <<>>
FileCorpus == {File_ext, File_class, File_empty}

\* content of sub/B.swift
File_B == <<"import", " ", "A", "\n">>

\* diagnostic messages
M_brace        == P_brace \o <<" ", "in", " ", "struct">>
M_access       == P_access
M_conformance  == Sp(<<"conformance", "of">>) \o <<" ">> \o Q(<<"T">>) \o <<" ">> \o P_to_protocol
                  \o <<" ">> \o Q(<<"P">>) \o <<" ", "conflicts">>
M_undeclared   == Sp(<<"use", "of", "undeclared", "type">>) \o <<" ">> \o Q(<<"K">>)
M_no_module    == P_no_module \o <<" ">> \o Q(<<"K">>)
M_not_impl     == <<"type", " ">> \o Q(<<"T">>) \o <<" ">> \o P_not_impl \o <<" ">> \o Q(<<"f">>)
M_not_conform  == <<"type", " ">> \o Q(<<"T">>) \o <<" ">> \o P_not_conform \o <<" ">> \o Q(<<"P">>)
M_conform_impl == M_not_conform \o <<"\n", " ", " ">> \o M_not_impl
M_mismatch     == P_convert \o <<" ">> \o Q(<<"String">>) \o <<" ", "to", " ", "specified", " ", "type", " ">>
                  \o Q(<<"String", "?">>)
M_not_init     == <<"property", " ">> \o Q(<<"n">>) \o <<" ">> \o P_not_init
M_sendable     == <<"suppress", " ">> \o P_sendable \o <<" ", "from", " ", "module", " ">> \o Q(<<"A">>)
M_other        == Sp(<<"unused", "variable">>)

Messages == {M_brace, M_access, M_conformance, M_undeclared, M_no_module, M_not_impl, M_not_conform,
             M_conform_impl, M_mismatch, M_not_init, M_sendable, M_other}

\* a located diagnostic of the log, as the patterns of parse_errors capture it
Located(file, line, message) ==
    [kind |-> "located", file |-> file, line |-> line, column |-> 1, severity |-> "error", message |-> message]

\* a linker diagnostic of the log
LinkerEntry == [kind |-> "linker", head |-> <<"ld", ":", " ", "error">>, message |-> <<" ", "undefined">>]

LogEntries ==
    {Located(<<"A.swift">>, l, m) : l \in 0..MaxLine, m \in Messages}
    \cup {Located(<<"M.swift">>, 1, M_no_module),
          Located(<<"B.swift">>, 1, M_no_module),
          Located(<<"/", "ci", "A.swift">>, 1, M_other),
          Located(<<"C.m">>, 1, M_other),
          LinkerEntry}

Logs == UNION {[1..n -> LogEntries] : n \in LogLengths}

\* ------------------------------------------------------------------------
\* BuildErrorFixer: operations
\* ------------------------------------------------------------------------

\* lines 49-59: the error dict of a located diagnostic
CompilationError(d) ==
    [file |-> d.file, line |-> d.line, column |-> d.column, severity |-> d.severity,
     message |-> Strip(d.message), type |-> "compilation"]

\* lines 62-71: the error dict of a linker diagnostic
LinkerError(d) ==
    [file |-> <<>>, line |-> -1, column |-> -1, severity |-> "error",
     message |-> d.head \o <<":", " ">> \o Strip(d.message), type |-> "linker"]

\* the path ends in .swift / in .h, .m or .mm
IsSwiftFile(file) == Basename(file) \in {"A.swift", "B.swift", "M.swift"}
IsObjcFile(file)  == Basename(file) \in {"C.m"}

\* lines 40-46: re.findall of the three patterns; swift_errors + objc_errors, then linker_errors
FoundCompilation(log) ==
    SelectSeq(log, LAMBDA d : d.kind = "located" /\ IsSwiftFile(d.file))
    \o SelectSeq(log, LAMBDA d : d.kind = "located" /\ IsObjcFile(d.file))
FoundLinker(log) == SelectSeq(log, LAMBDA d : d.kind = "linker")

RECURSIVE AddByFile(_, _)
\* self.errors_by_file[file].append(error) for each error of the list, in order
AddByFile(by_file, errs) ==
    IF errs = <<>> THEN by_file
    ELSE LET e == Head(errs)
             at == {i \in 1..Len(by_file) : by_file[i].file = e.file}
         IN  AddByFile(IF at = {} THEN Append(by_file, [file |-> e.file, errors |-> <<e>>])
                       ELSE [by_file EXCEPT ![CHOOSE i \in at : TRUE].errors = Append(@, e)],
                       Tail(errs))

\* [f \in 1..Len(s) |-> Op(s[i])]
MapSeq(s, Op(_)) == [i \in 1..Len(s) |-> Op(s[i])]

\* main(): read_log and parse_errors on the log content
parse_errors ==
    /\ pc = "start"
    /\ \E log \in Logs :
         /\ errors' = errors \o MapSeq(FoundCompilation(log), CompilationError)
                             \o MapSeq(FoundLinker(log), LinkerError)
         /\ errors_by_file' = AddByFile(errors_by_file, MapSeq(FoundCompilation(log), CompilationError))
    /\ pc' = "parsed"
    /\ UNCHANGED <<disk, fixes_applied, fix_pos, fixes_count, result, passes>>
    /\ UNCHANGED analyzer_vars
    /\ UNCHANGED unit_vars

\* fix_errors, lines 78-82: entry
fix_errors ==
    /\ pc = "parsed"
    /\ IF errors = <<>>
       THEN pc' = "done" /\ result' = FALSE
       ELSE pc' = "fixing" /\ UNCHANGED result
    /\ fix_pos' = 1
    /\ fixes_count' = 0
    /\ UNCHANGED <<disk, errors, errors_by_file, fixes_applied, passes>>
    /\ UNCHANGED analyzer_vars
    /\ UNCHANGED unit_vars

\* fix_errors, lines 85-87: one iteration, the whole of fix_file_errors
fix_file_errors ==
    /\ pc = "fixing"
    /\ fix_pos <= Len(errors_by_file)
    /\ \E r \in {FixFile(errors_by_file[fix_pos].file, errors_by_file[fix_pos].errors, fixes_applied)} :
           /\ errors_by_file' = [errors_by_file EXCEPT ![fix_pos].errors = r.sorted]
           /\ fixes_applied' = r.st.fixes
           /\ disk' = IF r.located /\ ~r.st.raised /\ r.st.needs_save
                      THEN [disk EXCEPT ![r.path] = Join(r.st.lines)]
                      ELSE disk
           /\ fixes_count' = IF r.st.raised THEN fixes_count ELSE fixes_count + r.st.count
           /\ pc' = IF r.st.raised THEN "crashed" ELSE "fixing"
           /\ passes' = Append(passes, r)
    /\ fix_pos' = fix_pos + 1
    /\ UNCHANGED <<errors, result>>
    /\ UNCHANGED analyzer_vars
    /\ UNCHANGED unit_vars

\* fix_errors, lines 90-97: the linker errors (fix_linker_error returns False) and the result
fix_errors_return ==
    /\ pc = "fixing"
    /\ fix_pos > Len(errors_by_file)
    /\ result' = (fixes_count > 0)
    /\ pc' = "done"
    /\ UNCHANGED <<disk, errors, errors_by_file, fixes_applied, fix_pos, fixes_count, passes>>
    /\ UNCHANGED analyzer_vars
    /\ UNCHANGED unit_vars

\* ------------------------------------------------------------------------
\* EnhancedBuildErrorAnalyzer: inputs and operations
\* ------------------------------------------------------------------------

\* the most diagnostics the logs given to one analyzer hold together
MaxIssues == 3

\* the most parse_errors calls on one analyzer
MaxCalls == 3

\* a located diagnostic of a log, as the patterns of parse_errors capture it
Diag(file, line, severity, message) ==
    [kind |-> "located", file |-> file, line |-> line, column |-> 1, severity |-> severity, message |-> message]

\* the same file as two build machines log it
Path_A     == <<"A.swift">>
Path_A_ci  == <<"/", "Users", "u", "work", "r", "r", "A.swift">>

AnalyzerEntries ==
    {Diag(Path_A, 1, "error", M_no_module),
     Diag(Path_A_ci, 1, "error", M_no_module),
     Diag(Path_A, 6, "error", M_other),
     Diag(Path_A, 11, "error", M_undeclared),
     Diag(Path_A, 17, "error", M_other),
     Diag(<<"B.swift">>, 1, "error", M_no_module),
     Diag(<<"C.m">>, 1, "warning", M_other),
     Diag(Path_A, 1, "warning", M_other),
     Diag(Path_A, 1, "note", M_other),
     [kind |-> "linker", head |-> <<"ld", ":", " ", "error">>, message |-> <<" ", "undefined">>],
     [kind |-> "library", message |-> <<"ld", ":", " ", "library", " ", "not", " ", "found", " ", "for", " ", "-lz">>],
     [kind |-> "module", message |-> <<"EmitSwiftModule">>],
     [kind |-> "xcode", message |-> Sp(<<"The", "following", "build", "commands", "failed">>) \o <<":", "\n", "\t", "CompileSwift">>]}

\* lines 136-170: the lists the patterns of parse_errors find in a log
SwiftIssues(log)   == SelectSeq(log, LAMBDA d : d.kind = "located" /\ IsSwiftFile(d.file))
ObjcIssues(log)    == SelectSeq(log, LAMBDA d : d.kind = "located" /\ IsObjcFile(d.file))
LinkerErrors(log)  == SelectSeq(log, LAMBDA d : d.kind = "linker")
                      \o SelectSeq(log, LAMBDA d : d.kind = "library")
                      \o SelectSeq(log, LAMBDA d : d.kind = "framework")
ModuleErrors(log)  == SelectSeq(log, LAMBDA d : d.kind = "module")
XcodeErrors(log)   == SelectSeq(log, LAMBDA d : d.kind = "xcode")

\* EnhancedBuildErrorAnalyzer.parse_errors(log_content) on the accumulators an
ParseLog(an, log) ==
    LET a1 == AddIssues(an, SwiftIssues(log) \o ObjcIssues(log))
        a2 == ProcessOther(a1, LinkerErrors(log), "linker", 0)
        a3 == ProcessOther(a2, ModuleErrors(log), "module_compilation", 0)
        a4 == ProcessOther(a3, XcodeErrors(log), "build_system", 0)
    IN  _link_related_errors(a4)

\* one call of parse_errors on the analyzer, for one log source
analyzer_parse_errors ==
    /\ Len(marks) < MaxCalls
    /\ \E n \in 0..(MaxIssues - consumed) : \E log \in [1..n -> AnalyzerEntries] :
         /\ analyzer' = ParseLog(analyzer, log)
         /\ marks' = Append(marks, Len(ParseLog(analyzer, log).errors))
         /\ consumed' = consumed + n
    /\ UNCHANGED fixer_vars
    /\ UNCHANGED unit_vars

\* EnhancedBuildErrorAnalyzer.__init__
AnalyzerInit ==
    /\ analyzer = [errors |-> <<>>, warnings |-> <<>>, notes |-> <<>>, errors_by_file |-> <<>>,
                   warnings_by_file |-> <<>>, error_types |-> <<>>, warning_types |-> <<>>,
                   related_errors |-> <<>>]
    /\ marks = <<>>
    /\ consumed = 0

\* BuildErrorFixer.__init__ and the source tree when main() starts
FixerInit ==
    /\ \E a \in FileCorpus : disk = (<<"A.swift">> :> a) @@ (<<"sub", "B.swift">> :> File_B)
    /\ errors = <<>>
    /\ errors_by_file = <<>>
    /\ fixes_applied = <<>>
    /\ pc = "start"
    /\ fix_pos = 1
    /\ fixes_count = 0
    /\ result = FALSE
    /\ passes = <<>>

\* no routine is called on its own
UnitIdle ==
    /\ call = [op |-> "none"]
    /\ out = [done |-> FALSE]

\* the fixer after main() has ended on a tree with an empty A.swift
FixerIdle ==
    /\ disk = (<<"A.swift">> :> File_empty)
    /\ errors = <<>>
    /\ errors_by_file = <<>>
    /\ fixes_applied = <<>>
    /\ pc = "done"
    /\ fix_pos = 1
    /\ fixes_count = 0
    /\ result = FALSE
    /\ passes = <<>>

vars == <<disk, errors, errors_by_file, fixes_applied, pc, fix_pos, fixes_count, result, passes,
          analyzer, marks, consumed, call, out>>

\* the fixer run by main() of auto-fix-build-errors.py
Init == FixerInit /\ AnalyzerInit /\ UnitIdle
Next == parse_errors \/ fix_errors \/ fix_file_errors \/ fix_errors_return
Spec == Init /\ [][Next]_vars

\* the analyzer, given its log sources one parse_errors call at a time
InitAnalyzer == AnalyzerInit /\ FixerIdle /\ UnitIdle
NextAnalyzer == analyzer_parse_errors
SpecAnalyzer == InitAnalyzer /\ [][NextAnalyzer]_vars

\* ------------------------------------------------------------------------
\* Single routines, each called once on inputs of a corpus
\* ------------------------------------------------------------------------

\* the largest number of phrases a message given to the classifier is made of
MaxFragments == 2

\* phrases of diagnostics: those the rules of _categorize_issue look for, in the
\* capitalisations a compiler or a wrapper script prints, and phrases no rule looks for
Fragments ==
    { Sp(<<"use", "of", "Undeclared", "type">>) \o <<" ">> \o Q(<<"K">>),
      P_no_module \o <<" ">> \o Q(<<"K">>),
      Sp(<<"no", "such", "module">>),
      Sp(<<"type">>) \o <<" ">> \o Q(<<"T">>) \o <<" ">> \o P_not_conform \o <<" ">> \o Q(<<"P">>),
      P_not_impl \o <<" ">> \o Q(<<"f">>),
      P_conformance \o <<" ">> \o Q(<<"T">>),
      P_to_protocol \o <<" ">> \o Q(<<"P">>),
      <<"'", "override", "'", " ">> \o Sp(<<"can", "only", "be", "specified", "on", "class", "members">>),
      Sp(<<"Cannot", "assign", "value", "of", "type">>) \o <<" ">> \o Q(<<"A">>),
      Sp(<<"nil", "coalescing", "operator">>),
      Sp(<<"Property">>) \o <<" ">> \o Q(<<"n">>) \o <<" ">> \o P_not_init,
      Sp(<<"property", "n">>) \o <<" ">> \o P_not_init,
      P_brace,
      Sp(<<"expected", "declaration">>),
      P_access,
      P_sendable,
      <<"@", "preconcurrency">>,
      Sp(<<"unused", "variable">>) }

RECURSIVE Phrases(_)
\* the phrases of a message, separated by "; "
Phrases(fs) ==
    IF fs = <<>> THEN <<>>
    ELSE IF Len(fs) = 1 THEN fs[1]
    ELSE fs[1] \o <<";", " ">> \o Phrases(Tail(fs))

ClassifierMessages == {Phrases(fs) : fs \in UNION {[1..n -> Fragments] : n \in 1..MaxFragments}}

ClassifierCalls ==
    {[op |-> o, message |-> m] : o \in {"_categorize_issue", "fix_file_errors"}, m \in ClassifierMessages}

\* the fix routines fix_file_errors calls for a file whose only diagnostic carries message:
\* the file-level routines of the flags, then the routine of the if/elif chain unless the
\* diagnostic is skipped
RoutinesSelected(message) ==
    LET flags == FileLevelFlags(<<[message |-> message]>>)
    IN  {r \in {"fix_missing_braces"} : flags.brace}
        \cup {r \in {"fix_access_control"} : flags.access}
        \cup {r \in {"fix_conformance_declarations"} : flags.conformance}
        \cup {r \in {Dispatch(message)} : ~SkippedByFileLevel(message, flags) /\ r # "none"}

\* fix_file_errors choosing the routines for one diagnostic
select_routines ==
    /\ call.op = "fix_file_errors"
    /\ ~out.done
    /\ out' = [done |-> TRUE, val |-> RoutinesSelected(call.message)]
    /\ UNCHANGED call
    /\ UNCHANGED fixer_vars
    /\ UNCHANGED analyzer_vars

\* a call of _categorize_issue(message)
categorize ==
    /\ call.op = "_categorize_issue"
    /\ ~out.done
    /\ out' = [done |-> TRUE, val |-> _categorize_issue(call.message)]
    /\ UNCHANGED call
    /\ UNCHANGED fixer_vars
    /\ UNCHANGED analyzer_vars

\* the classifier called on one message
InitClassifier ==
    /\ FixerIdle
    /\ AnalyzerInit
    /\ call \in ClassifierCalls
    /\ out = [done |-> FALSE]
NextClassifier == categorize \/ select_routines
SpecClassifier == InitClassifier /\ [][NextClassifier]_vars

\* ------------------------------------------------------------------------
\* Log sources: read_log and main of the fixer, _read_file and
\* find_and_analyze_logs of the analyzer
\*
\* A log source is [readable, size, lines]: whether open() and read() succeed,
\* st_size, and the lines of the file.  A line is a diagnostic (an entry the
\* patterns of parse_errors find) or [kind |-> "noise", text |-> ...].  The
\* results below are return values, exit status and object state; what the
\* routines print is not part of them.
\* ------------------------------------------------------------------------

\* the most lines a log source holds
MaxLogLines == 2

\* line 78: files of fewer bytes are skipped
SmallFile == 100

\* a line of build output without a diagnostic, and a line that is no build output
NoiseBuild == [kind |-> "noise", text |-> Sp(<<"Compiling", "Swift", "sources">>)]
NoisePlain == [kind |-> "noise", text |-> Sp(<<"all", "done">>)]

LogLines == {NoiseBuild, NoisePlain, Diag(Path_A, 1, "error", M_no_module)}

LogSources ==
    {src \in [readable : BOOLEAN, size : {0, SmallFile - 1, SmallFile},
              lines : UNION {[1..n -> LogLines] : n \in 0..MaxLogLines}] :
        (src.size = 0) <=> (src.lines = <<>>)}

\* no pattern of either parse_errors finds a diagnostic in the lines
IsClean(lines) == \A i \in 1..Len(lines) : lines[i].kind = "noise"

\* BuildErrorFixer.read_log: the content, "" (<<>>) when the read raises
read_log(source) == IF source.readable THEN source.lines ELSE <<>>

\* main() of auto-fix-build-errors.py on a log in which parse_errors finds nothing:
\* [log_content, errors, exit]
main(source) ==
    IF read_log(source) = <<>>
    THEN [log_content |-> <<>>, errors |-> <<>>, exit |-> 1]
    ELSE [log_content |-> read_log(source),
          errors |-> MapSeq(FoundCompilation(read_log(source)), CompilationError)
                     \o MapSeq(FoundLinker(read_log(source)), LinkerError),
          exit |-> 1]

\* EnhancedBuildErrorAnalyzer._read_file: the content, None (<<>>) when the file is empty
\* or the read raises
_read_file(source) == IF source.readable /\ source.lines # <<>> THEN source.lines ELSE <<>>

\* str.lower() of a lexeme of a noise line
LowerLog(t) == CASE t = "Swift" -> "swift" [] t = "Compiling" -> "compiling" [] OTHER -> t

\* _is_build_log: one of the build patterns is found, case ignored
_is_build_log(content) ==
    \E i \in 1..Len(content) :
        IF content[i].kind = "noise"
        THEN \E k \in 1..Len(content[i].text) :
                 LowerLog(content[i].text[k]) \in {"swift", "xcodebuild", "clang"}
        ELSE content[i].kind \in {"located", "linker", "module", "xcode"}

\* parse_errors returns issues_found > 0
IssuesFound(log) ==
    Len(SwiftIssues(log)) + Len(ObjcIssues(log)) + Len(LinkerErrors(log))
        + Len(ModuleErrors(log)) + Len(XcodeErrors(log)) > 0

\* the accumulators of a new analyzer
NewAnalyzer ==
    [errors |-> <<>>, warnings |-> <<>>, notes |-> <<>>, errors_by_file |-> <<>>,
     warnings_by_file |-> <<>>, error_types |-> <<>>, warning_types |-> <<>>,
     related_errors |-> <<>>]

\* a log directory: the combined log and one other log file, each a source or absent
NoFile == [readable |-> FALSE, size |-> -1, lines |-> <<>>]
LogDirs == [combined : LogSources \cup {NoFile}, log : LogSources \cup {NoFile}]

\* lines 60-71: glob('*.log') then glob('*.txt'), sorted by size, largest first
LogFiles(dir) ==
    LET found == (IF dir.log = NoFile THEN <<>> ELSE <<[name |-> "build.log", file |-> dir.log]>>)
                 \o (IF dir.combined = NoFile THEN <<>>
                     ELSE <<[name |-> "combined_build_logs.txt", file |-> dir.combined]>>)
    IN  IF Len(found) = 2 /\ found[2].file.size > found[1].file.size
        THEN <<found[2], found[1]>> ELSE found

RECURSIVE AnalyzeLoop(_, _)
\* lines 75-94: `for log_file in log_files`
AnalyzeLoop(acc, files) ==
    IF files = <<>> THEN acc
    ELSE IF Head(files).file.size < SmallFile THEN AnalyzeLoop(acc, Tail(files))
    ELSE IF _read_file(Head(files).file) = <<>> THEN AnalyzeLoop(acc, Tail(files))
    ELSE IF ~_is_build_log(_read_file(Head(files).file)) THEN AnalyzeLoop(acc, Tail(files))
    ELSE IF IssuesFound(_read_file(Head(files).file))
         THEN AnalyzeLoop([ret |-> TRUE,
                           analyzer |-> ParseLog(acc.analyzer, _read_file(Head(files).file)),
                           analyzed_files |-> Append(acc.analyzed_files, Head(files).name)],
                          Tail(files))
         ELSE AnalyzeLoop([acc EXCEPT !.analyzer = ParseLog(acc.analyzer, _read_file(Head(files).file))],
                          Tail(files))

\* find_and_analyze_logs on a new analyzer: [ret, analyzer, analyzed_files]
FindAndAnalyze(dir) ==
    IF dir.combined # NoFile /\ dir.combined.size > 0 /\ _read_file(dir.combined) # <<>>
    THEN [ret |-> TRUE, analyzer |-> ParseLog(NewAnalyzer, _read_file(dir.combined)),
          analyzed_files |-> <<"combined_build_logs.txt">>]
    ELSE AnalyzeLoop([ret |-> FALSE, analyzer |-> NewAnalyzer, analyzed_files |-> <<>>], LogFiles(dir))

\* main() of the fixer on a log without diagnostics, or on one that cannot be read
main_on_log ==
    /\ call.op = "main"
    /\ ~out.done
    /\ out' = [done |-> TRUE, val |-> main(call.source)]
    /\ UNCHANGED call
    /\ UNCHANGED fixer_vars
    /\ UNCHANGED analyzer_vars

\* find_and_analyze_logs() of a new analyzer on a log directory
find_and_analyze_logs ==
    /\ call.op = "find_and_analyze_logs"
    /\ ~out.done
    /\ out' = [done |-> TRUE, val |-> FindAndAnalyze(call.dir)]
    /\ UNCHANGED call
    /\ UNCHANGED fixer_vars
    /\ UNCHANGED analyzer_vars

InitLogs ==
    /\ FixerIdle
    /\ AnalyzerInit
    /\ call \in {[op |-> "main", source |-> src] : src \in {x \in LogSources : IsClean(x.lines)}}
               \cup {[op |-> "find_and_analyze_logs", dir |-> d] : d \in LogDirs}
    /\ out = [done |-> FALSE]
NextLogs == main_on_log \/ find_and_analyze_logs
SpecLogs == InitLogs /\ [][NextLogs]_vars

\* ------------------------------------------------------------------------
\* EnhancedBuildErrorAnalyzer: the reports
\* ------------------------------------------------------------------------

\* the last second of the clock at which a run starts
MaxTime == 2

\* line 40: time.strftime("%Y-%m-%d %H:%M:%S") when the analyzer is constructed,
\* as the second of the clock
Times == 1..MaxTime

\* generate_text_report, lines 375-393: the lines of the report down to the summary line
TextReportHead(an, analyzed_files, timestamp) ==
    IF an.errors = <<>> /\ an.warnings = <<>>
    THEN << <<"No errors or warnings detected in the build logs.">> >>
    ELSE << <<"=", 80>>, <<"BUILD ERROR ANALYSIS REPORT">>, <<"=", 80>>,
            <<"Generated at: ", timestamp>>, <<>>, <<"Analyzed the following logs:">> >>
         \o [i \in 1..Len(analyzed_files) |-> <<"  - ", analyzed_files[i]>>]
         \o << <<>>,
                <<"SUMMARY: Found ", Len(an.errors), " errors and ", Len(an.warnings), " warnings">>,
                <<>> >>

\* generate_reports, lines 356-368: report_data
ReportData(an, analyzed_files, timestamp) ==
    [summary |-> [error_count |-> Len(an.errors), warning_count |-> Len(an.warnings),
                  error_types |-> an.error_types, warning_types |-> an.warning_types,
                  analyzed_files |-> analyzed_files, timestamp |-> timestamp],
     errors |-> an.errors,
     warnings |-> an.warnings,
     related_error_groups |->
         [g \in 1..Len(an.related_errors) |->
             [key |-> an.related_errors[g].key,
              val |-> [k \in 1..Len(an.related_errors[g].val) |-> an.related_errors[g].val[k].message]]]]

RECURSIVE MostCommon(_)
\* Counter.most_common(): the items by count, largest first, equal counts in insertion order
MostCommon(counter) ==
    IF counter = <<>> THEN <<>>
    ELSE LET rest == MostCommon(SubSeq(counter, 1, Len(counter) - 1))
             item == counter[Len(counter)]
             ahead == {i \in 1..Len(rest) : rest[i].val >= item.val}
         IN  SubSeq(rest, 1, Cardinality(ahead)) \o <<item>> \o SubSeq(rest, Cardinality(ahead) + 1, Len(rest))

\* generate_text_report, lines 375-376 and 391-463, as the figures and lists its lines show:
\*   totals       the counts of the SUMMARY line (line 391), by severity
\*   error_types  the counts of the ERROR TYPES lines (394-398), in the order printed
\*   warning_types  no line of the report shows a count of warnings by category
\*   errors       for a file with a FILE section of DETAILED ERRORS (409-417), the lines of
\*                its ERROR entries in the order printed
\*   warnings     the same for the FILE sections of WARNINGS SUMMARY (452-457)
\* The order of the FILE sections is not represented.
TextReportBody(an) ==
    LET nothing == an.errors = <<>> /\ an.warnings = <<>>
        lines_of(list) == [k \in 1..Len(list) |-> SortByLineAsc(list)[k].line]
    IN  [totals |-> IF nothing THEN <<>>
                    ELSE << [key |-> "error", val |-> Len(an.errors)],
                            [key |-> "warning", val |-> Len(an.warnings)] >>,
         error_types |-> IF an.errors = <<>> THEN <<>> ELSE MostCommon(an.error_types),
         warning_types |-> <<>>,
         errors |-> IF an.errors = <<>> THEN <<>>
                    ELSE [i \in 1..Len(an.errors_by_file) |->
                             [key |-> an.errors_by_file[i].key, val |-> lines_of(an.errors_by_file[i].val)]],
         warnings |-> IF nothing \/ an.warnings = <<>> THEN <<>>
                      ELSE [i \in 1..Len(an.warnings_by_file) |->
                               [key |-> an.warnings_by_file[i].key,
                                val |-> lines_of(an.warnings_by_file[i].val)]]]

\* the text report and the structured record of an analyzer given one log
ReportsOn(log) ==
    [text |-> TextReportBody(ParseLog(NewAnalyzer, log)),
     data |-> ReportData(ParseLog(NewAnalyzer, log), <<>>, 1)]

\* one run on one log: parse_errors, generate_reports
report_on_log ==
    /\ call.op = "report"
    /\ ~out.done
    /\ \E r \in {ReportsOn(call.log)} : out' = [done |-> TRUE, val |-> r]
    /\ UNCHANGED call
    /\ UNCHANGED fixer_vars
    /\ UNCHANGED analyzer_vars

\* the reports of an analyzer constructed at a time and run on a log directory
Reports(found, timestamp) ==
    [text |-> TextReportHead(found.analyzer, found.analyzed_files, timestamp),
     data |-> ReportData(found.analyzer, found.analyzed_files, timestamp)]

\* one run: __init__, find_and_analyze_logs, generate_reports
generate_reports ==
    /\ call.op = "generate_reports"
    /\ ~out.done
    /\ out' = [done |-> TRUE, val |-> Reports(FindAndAnalyze(call.dir), call.started)]
    /\ UNCHANGED call
    /\ UNCHANGED fixer_vars
    /\ UNCHANGED analyzer_vars

InitReports ==
    /\ FixerIdle
    /\ AnalyzerInit
    /\ call \in [op : {"generate_reports"}, dir : LogDirs, started : Times]
                \cup [op : {"report"}, log : UNION {[1..n -> AnalyzerEntries] : n \in 0..MaxIssues}]
    /\ out = [done |-> FALSE]
NextReports == generate_reports \/ report_on_log
SpecReports == InitReports /\ [][NextReports]_vars

\* ------------------------------------------------------------------------
\* Fix routines of BuildErrorFixer, each called once on a source file
\* ------------------------------------------------------------------------

\* the most lines of a source file given to a fix routine
MaxFileLines == 3

\* the most diagnostics of the file given to a file-level fix routine
MaxDiags == 2

\* lines of a source file with braces
L_open  == <<"class", " ", "T", " ", "{", "\n">>
L_func  == <<" ", " ", "func", " ", "f", " ", "{", "\n">>
L_close == <<"}", "\n">>
BraceLines == {L_open, L_func, L_close}

\* a text, and the text without the newline that ends its last line
Unterminated(text) == IF text = <<>> THEN text ELSE SubSeq(text, 1, Len(text) - 1)
BraceFiles ==
    LET whole == {Join(ls) : ls \in UNION {[1..n -> BraceLines] : n \in 0..MaxFileLines}}
    IN  whole \cup {Unterminated(t) : t \in whole}

\* the diagnostics of A.swift a log holds, as parse_errors stores them
BraceDiags ==
    LET entries == {CompilationError(Located(<<"A.swift">>, l, M_brace)) : l \in 0..(MaxFileLines + 1)}
                   \cup {CompilationError(Located(<<"A.swift">>, 1, M_other))}
    IN  UNION {[1..n -> entries] : n \in 0..MaxDiags}

BraceCalls == [op : {"fix_missing_braces"}, text : BraceFiles, errors : BraceDiags]

\* lines 131-142 and 153-155: the file is read, the diagnostics are sorted by line, largest
\* first, and fix_missing_braces is called
call_fix_missing_braces ==
    /\ call.op = "fix_missing_braces"
    /\ ~out.done
    /\ out' = [done |-> TRUE,
               val |-> fix_missing_braces(PassStart(SplitLines(call.text), <<>>), <<"A.swift">>,
                                          SortByLineDesc(call.errors))]
    /\ UNCHANGED call
    /\ UNCHANGED fixer_vars
    /\ UNCHANGED analyzer_vars

\* lines of a source file around its imports
L_comment  == <<"//", " ", "c", "\n">>
L_blank    == <<"\n">>
L_import   == <<"import", " ", "A", "\n">>
L_indented == <<" ", " ", "import", " ", "B", "\n">>
L_code     == <<"x", " ", "=", " ", "y", "\n">>
ImportLines == {L_comment, L_blank, L_import, L_indented, L_code}

ImportFiles ==
    LET whole == {Join(ls) : ls \in UNION {[1..n -> ImportLines] : n \in 0..MaxFileLines}}
    IN  whole \cup {Unterminated(t) : t \in whole}

\* messages of the missing-module diagnostic, and one that names no module
ImportMessages == {M_no_module, P_no_module \o <<" ">> \o Q(<<"A">>), P_no_module}

ImportCalls == [op : {"fix_missing_import"}, text : ImportFiles, line : 1..MaxFileLines,
                message : ImportMessages]

\* lines 131-138 and 190-191: the file is read and fix_missing_import is called for a
\* diagnostic of the file
call_fix_missing_import ==
    /\ call.op = "fix_missing_import"
    /\ ~out.done
    /\ out' = [done |-> TRUE,
               val |-> fix_missing_import(PassStart(SplitLines(call.text), <<>>), <<"A.swift">>,
                                          call.line - 1, call.message)]
    /\ UNCHANGED call
    /\ UNCHANGED fixer_vars
    /\ UNCHANGED analyzer_vars

\* the most lines between a diagnostic and the declaration of the field it names
MaxGap == 11

\* declared types of a stored property
FieldTypes ==
    {<<"String">>, <<"Int">>, <<"Bool">>, <<"Double">>, <<"T">>,
     <<"[", "Int", "]">>, <<"[", "T", "]">>,
     <<"[", "String", ":", " ", "Int", "]">>, <<"[", "T", ":", " ", "T", "]">>,
     <<"String", "?">>, <<"Int", "?">>, <<"Bool", "?">>, <<"T", "?">>}

\* the declaration of the stored property n
DeclLine(type) == <<" ", " ", "var", " ", "n", ":", " ">> \o type \o <<"\n">>

\* a file of statements with the declaration of n on line place
FileWithDecl(length, place) ==
    Join([i \in 1..length |-> IF i = place THEN DeclLine(<<"Int">>) ELSE L_code])

\* the diagnostic names the property n, or has the words without a name
InitMessages == {M_not_init, <<"property", " ">> \o P_not_init}

\* the declaration of the stored property mn, whose name ends with n, and a declaration of n
\* that has an initializer
L_decl_mn   == <<" ", " ", "var", " ", "m", "n", ":", " ", "Int", "\n">>
L_decl_init == <<" ", " ", "var", " ", "n", ":", " ", "Int", " ", "=", " ", "1", "\n">>
FieldLines  == {DeclLine(<<"Int">>), L_decl_mn, L_decl_init}

\* files of one or two declarations
FieldFiles == {Join(ls) : ls \in UNION {[1..n -> FieldLines] : n \in 1..2}}

InitCalls ==
    {[op |-> "fix_missing_initialization", text |-> FileWithDecl(MaxGap + 1, place), line |-> line,
      message |-> m] : place \in 1..(MaxGap + 1), line \in 1..(MaxGap + 1), m \in InitMessages}
    \cup {[op |-> "fix_missing_initialization", text |-> DeclLine(t), line |-> 1, message |-> m] :
              t \in FieldTypes, m \in InitMessages}
    \cup {[op |-> "fix_missing_initialization", text |-> t, line |-> line, message |-> m] :
              t \in FieldFiles, line \in 1..2, m \in InitMessages}

\* lines 131-138, 173 and 202-203: the file is read and fix_missing_initialization is called
\* for a diagnostic of the file
call_fix_missing_initialization ==
    /\ call.op = "fix_missing_initialization"
    /\ ~out.done
    /\ out' = [done |-> TRUE,
               val |-> fix_missing_initialization(PassStart(SplitLines(call.text), <<>>), <<"A.swift">>,
                                                  call.line - 1, call.message)]
    /\ UNCHANGED call
    /\ UNCHANGED fixer_vars
    /\ UNCHANGED analyzer_vars

\* a later run of the fixer on the same log: the file the first call changed is read again
\* and fix_missing_initialization is called for the same diagnostic
call_fix_missing_initialization_again ==
    /\ call.op = "fix_missing_initialization"
    /\ out.done
    /\ "again" \notin DOMAIN out
    /\ out' = [done |-> TRUE, val |-> out.val,
               again |-> fix_missing_initialization(PassStart(SplitLines(Join(out.val.lines)), <<>>),
                                                    <<"A.swift">>, call.line - 1, call.message)]
    /\ UNCHANGED call
    /\ UNCHANGED fixer_vars
    /\ UNCHANGED analyzer_vars

\* import lines of module A: plain, indented, and followed by a comment; the import line of
\* module AB, whose name starts with the name of module A
L_import_in   == <<" ", " ", "import", " ", "A", "\n">>
L_import_note == <<"import", " ", "A", " ", "//", " ", "c", "\n">>
L_import_AB   == <<"import", " ", "A", "B", "\n">>
SendableLines == {L_import, L_import_in, L_import_note, L_import_AB, L_indented, L_code}

SendableFiles ==
    LET whole == {Join(ls) : ls \in UNION {[1..n -> SendableLines] : n \in 0..MaxFileLines}}
    IN  whole \cup {Unterminated(t) : t \in whole}

\* the Sendable diagnostic naming module A, and one that names no module
SendableMessages == {M_sendable, <<"suppress", " ">> \o P_sendable}

SendableCalls == [op : {"fix_add_preconcurrency"}, text : SendableFiles, line : 1..MaxFileLines,
                  message : SendableMessages]

\* lines 131-138, 173 and 206-207: the file is read and fix_add_preconcurrency is called for
\* a diagnostic of the file
call_fix_add_preconcurrency ==
    /\ call.op = "fix_add_preconcurrency"
    /\ ~out.done
    /\ out' = [done |-> TRUE,
               val |-> fix_add_preconcurrency(PassStart(SplitLines(call.text), <<>>), <<"A.swift">>,
                                              call.line - 1, call.message)]
    /\ UNCHANGED call
    /\ UNCHANGED fixer_vars
    /\ UNCHANGED analyzer_vars

\* lines of a source file with extensions: declared public, not declared public, and
\* declared public with the words repeated in a comment
L_public_ext   == <<"public", " ", "extension", " ", "T", " ", "{", "\n">>
L_ext          == <<"extension", " ", "T", " ", "{", "\n">>
L_public_twice == <<"public", " ", "extension", " ", "T", " ", "{", " ", "//", " ",
                    "public", " ", "extension", "\n">>
AccessLines == {L_public_ext, L_ext, L_public_twice, L_code}

AccessFiles == {Join(ls) : ls \in UNION {[1..n -> AccessLines] : n \in 0..MaxFileLines}}

\* the diagnostics of A.swift a log holds, as parse_errors stores them
AccessDiags ==
    LET entries == {CompilationError(Located(<<"A.swift">>, l, M_access)) : l \in 0..(MaxFileLines + 1)}
                   \cup {CompilationError(Located(<<"A.swift">>, 1, M_other))}
    IN  UNION {[1..n -> entries] : n \in 0..MaxDiags}

AccessCalls == [op : {"fix_access_control"}, text : AccessFiles, errors : AccessDiags]

\* lines 131-142 and 159-161: the file is read, the diagnostics are sorted by line, largest
\* first, and fix_access_control is called
call_fix_access_control ==
    /\ call.op = "fix_access_control"
    /\ ~out.done
    /\ out' = [done |-> TRUE,
               val |-> fix_access_control(PassStart(SplitLines(call.text), <<>>), <<"A.swift">>,
                                          SortByLineDesc(call.errors))]
    /\ UNCHANGED call
    /\ UNCHANGED fixer_vars
    /\ UNCHANGED analyzer_vars

\* source trees: the files under the root in the order os.walk lists them (the files of a
\* directory, then its subdirectories, one after the other in either order)
WalkRoot == << <<"A.swift">> >>
WalkSub  == << <<"sub", "A.swift">>, <<"sub", "B.swift">>, <<"sub", "deep", "A.swift">> >>
WalkZ    == << <<"z", "A.swift">> >>
Walks ==
    {SelectSeq(order, LAMBDA q : q \in present) :
        order \in {WalkRoot \o WalkSub \o WalkZ, WalkRoot \o WalkZ \o WalkSub},
        present \in SUBSET {WalkRoot[1], WalkSub[1], WalkSub[2], WalkSub[3], WalkZ[1]}}

\* a file outside the root, named by an absolute path
Path_abs == <<"/", "ci", "A.swift">>

\* the paths diagnostics report
ReportedPaths == {<<"A.swift">>, <<"sub", "A.swift">>, <<"gone", "A.swift">>, <<"B.swift">>, Path_abs}

\* ToSet(walk) is the set of the files of the tree
ToSet(seq) == {seq[i] : i \in 1..Len(seq)}

ResolveCalls == [op : {"resolve"}, walk : Walks, outside : SUBSET {Path_abs}, file_path : ReportedPaths]

\* lines 99-129 of fix_file_errors: the file to edit is looked for
locate_file ==
    /\ call.op = "resolve"
    /\ ~out.done
    /\ out' = [done |-> TRUE,
               val |-> ResolveIn(call.walk, ToSet(call.walk) \cup call.outside, call.file_path)]
    /\ UNCHANGED call
    /\ UNCHANGED fixer_vars
    /\ UNCHANGED analyzer_vars

RoutineCalls ==
    BraceCalls \cup ImportCalls \cup InitCalls \cup SendableCalls \cup AccessCalls \cup ResolveCalls

\* one fix routine called on one file
InitRoutines ==
    /\ FixerIdle
    /\ AnalyzerInit
    /\ call \in RoutineCalls
    /\ out = [done |-> FALSE]
NextRoutines ==
    \/ call_fix_missing_braces
    \/ call_fix_missing_import
    \/ call_fix_missing_initialization
    \/ call_fix_missing_initialization_again
    \/ call_fix_add_preconcurrency
    \/ call_fix_access_control
    \/ locate_file
SpecRoutines == InitRoutines /\ [][NextRoutines]_vars

\* ------------------------------------------------------------------------
\* The diagnostic pattern of parse_errors on the text of a log
\* ------------------------------------------------------------------------

\* the most lines a log holds after its first diagnostic header
MaxLogTail == 3

\* `([^:\s]+\.swift):(\d+):(\d+): (error|warning): ` matches at position i of the text
HeaderAt(text, i) ==
    /\ i >= 1 /\ i + 9 <= Len(text)
    /\ text[i] \in {"A.swift", "B.swift", "M.swift"}
    /\ text[i + 1] = ":" /\ text[i + 2] \in {"1", "2"}
    /\ text[i + 3] = ":" /\ text[i + 4] \in {"1", "2"}
    /\ text[i + 5] = ":" /\ text[i + 6] = " "
    /\ text[i + 7] \in {"error", "warning"}
    /\ text[i + 8] = ":" /\ text[i + 9] = " "

\* the lookahead `(?=\n\n|\n[^\s]|$)` holds at position p of the text
BoundaryAt(text, p) ==
    \/ p = Len(text) + 1
    \/ p = Len(text) /\ text[p] = "\n"
    \/ p < Len(text) /\ text[p] = "\n" /\ text[p + 1] = "\n"
    \/ p < Len(text) /\ text[p] = "\n" /\ ~IsSpace(text[p + 1])

RECURSIVE FindLocated(_, _)
\* re.findall of the pattern on the text from position start on: the groups of each match,
\* the lazy `(.*?)` ending at the first position where the lookahead holds
FindLocated(text, start) ==
    LET heads == {i \in start..Len(text) : HeaderAt(text, i)}
    IN  IF heads = {} THEN <<>>
        ELSE LET i == CHOOSE h \in heads : \A g \in heads : h <= g
                 p == CHOOSE q \in (i + 10)..(Len(text) + 1) :
                          BoundaryAt(text, q) /\ \A r \in (i + 10)..(q - 1) : ~BoundaryAt(text, r)
             IN  << [file |-> text[i], line |-> text[i + 2], column |-> text[i + 4],
                     severity |-> text[i + 7], message |-> SubSeq(text, i + 10, p - 1)] >>
                 \o FindLocated(text, p)

\* lines of a log after a diagnostic header: the header of the next diagnostic, a source
\* line and a caret line printed indented, a source line printed from column 0, an empty line
T_header  == <<"A.swift", ":", "2", ":", "1", ":", " ", "error", ":", " ">> \o M_brace
T_snippet == <<" ", " ", "let", " ", "x">>
T_caret   == <<" ", " ", "^">>
T_column0 == <<"import", " ", "K">>
T_empty   == <<>>
TailLines == {T_header, T_snippet, T_caret, T_column0, T_empty}

\* the text of a log: the header of a diagnostic with the first line of its message, then
\* the lines of the tail
LogText(tail) ==
    <<"A.swift", ":", "1", ":", "1", ":", " ", "error", ":", " ">> \o M_no_module \o <<"\n">>
    \o Join([k \in 1..Len(tail) |-> tail[k] \o <<"\n">>])

CaptureCalls == [op : {"capture"}, tail : UNION {[1..n -> TailLines] : n \in 0..MaxLogTail}]

\* lines 40 and 49-56 of parse_errors: the pattern is applied to the log and the message of
\* each match is stripped
capture_located ==
    /\ call.op = "capture"
    /\ ~out.done
    /\ \E found \in {FindLocated(LogText(call.tail), 1)} :
          out' = [done |-> TRUE,
                  val |-> [k \in 1..Len(found) |-> [found[k] EXCEPT !.message = Strip(@)]]]
    /\ UNCHANGED call
    /\ UNCHANGED fixer_vars
    /\ UNCHANGED analyzer_vars

\* the diagnostic pattern applied to one log
InitCapture ==
    /\ FixerIdle
    /\ AnalyzerInit
    /\ call \in CaptureCalls
    /\ out = [done |-> FALSE]
NextCapture == capture_located
SpecCapture == InitCapture /\ [][NextCapture]_vars

\* ------------------------------------------------------------------------
\* _normalize_path on the paths build machines log
\* ------------------------------------------------------------------------

\* names of users, of repositories and of directories of a runner
UserNames   == {"u", "v", "runner"}
RepoNames   == {"r", "app"}
RunnerNames == {"a", "b", "r"}

\* the directory a build machine checks the repository out to, put before the path of a
\* file: none, workspace/, /Users/<u>/work/<r>/<r>/, /Users/runner/<a>/<b>/ and
\* /home/runner/work/<r>/<r>/
MachinePrefixes ==
    {<<>>, <<"workspace">>}
    \cup {<<"/", "Users", u, "work", r, r>> : u \in UserNames, r \in RepoNames}
    \cup {<<"/", "Users", "runner", a, b>> : a \in RunnerNames, b \in RunnerNames}
    \cup {<<"/", "home", "runner", "work", r, r>> : r \in RepoNames}

\* paths of files inside the repository
LogicalFiles == {<<"A.swift">>, <<"Sources", "A.swift">>, <<"Sources", "sub", "A.swift">>,
                 <<"workspace", "A.swift">>}

NormalizeCalls == [op : {"_normalize_path"}, prefix : MachinePrefixes, logical : LogicalFiles]

\* a call of _normalize_path(path)
normalize_path ==
    /\ call.op = "_normalize_path"
    /\ ~out.done
    /\ out' = [done |-> TRUE, val |-> _normalize_path(call.prefix \o call.logical)]
    /\ UNCHANGED call
    /\ UNCHANGED fixer_vars
    /\ UNCHANGED analyzer_vars

\* _normalize_path called on one logged path
InitPaths ==
    /\ FixerIdle
    /\ AnalyzerInit
    /\ call \in NormalizeCalls
    /\ out = [done |-> FALSE]
NextPaths == normalize_path
SpecPaths == InitPaths /\ [][NextPaths]_vars

\* ------------------------------------------------------------------------
\* Properties of the remediation pass (BuildErrorFixer)
\* ------------------------------------------------------------------------

\* the passes that read a file, and the mutations of a pass
LocatedPasses == {i \in 1..Len(passes) : passes[i].located}
EditsOf(i) == passes[i].st.edits

\* the categories for which the specification allows an automatic edit
SupportedCategories == {"missing_brace", "access_control", "missing_import", "concurrency", "initialization"}

C3_NoLineEditedTwice ==
    \A i \in LocatedPasses : \A k, l \in 1..Len(EditsOf(i)) :
        (EditsOf(i)[k].op # EditsOf(i)[l].op /\ EditsOf(i)[k].target # 0)
            => EditsOf(i)[k].target # EditsOf(i)[l].target

\* C4: a pass all of whose diagnostics are outside the supported categories changes no line
\* and records no fix.
C4_OnlySupportedCategoriesEdit ==
    \A i \in LocatedPasses :
        (\A k \in 1..Len(passes[i].sorted) :
             _categorize_issue(passes[i].sorted[k].message) \notin SupportedCategories)
        => /\ passes[i].st.lines = passes[i].read
           /\ passes[i].st.fixes = passes[i].fixes_before

\* C5: a pass whose diagnostics are all protocol-conformance diagnostics inserts no stub and
\* changes no line.
C5_ProtocolConformanceNeverEdits ==
    \A i \in LocatedPasses :
        (\A k \in 1..Len(passes[i].sorted) :
             _categorize_issue(passes[i].sorted[k].message) = "protocol_conformance")
        => passes[i].st.lines = passes[i].read

\* C6: the remediation engine never writes to the source tree.
C6_NoWriteToSourceTree == [][disk' = disk]_vars

\* C7: the pass never raises, and a diagnostic whose line is 0 or beyond the end of the file
\* edits no line through its line number.
C7_NeverRaisesOnMalformedInput ==
    /\ pc # "crashed"
    /\ \A i \in LocatedPasses : \A k \in 1..Len(EditsOf(i)) :
           EditsOf(i)[k].byline => EditsOf(i)[k].diag \in 1..Len(passes[i].read)

\* C8: when a diagnostic's file cannot be located or read, its operations are skipped and
\* recorded (the fixer's only record is fixes_applied).
C8_UnlocatedFileRecorded ==
    \A i \in 1..Len(passes) :
        ~passes[i].located =>
            /\ passes[i].st.edits = <<>>
            /\ \E k \in 1..Len(fixes_applied) : fixes_applied[k].file = passes[i].key

\* ------------------------------------------------------------------------
\* Properties of the analyzer (EnhancedBuildErrorAnalyzer)
\* ------------------------------------------------------------------------

\* every issue the analyzer holds, and those that have a source location
AllIssues     == analyzer.errors \o analyzer.warnings \o analyzer.notes
LocatedIssues == SelectSeq(AllIssues, LAMBDA e : e.file # <<>>)

\* C9: no two located issues of the accumulated collection are identical in (file, line,
\* column, message).
C9_NoDuplicateIssues ==
    \A i, j \in 1..Len(LocatedIssues) :
        i # j => <<LocatedIssues[i].file, LocatedIssues[i].line, LocatedIssues[i].column, LocatedIssues[i].message>>
                 # <<LocatedIssues[j].file, LocatedIssues[j].line, LocatedIssues[j].column, LocatedIssues[j].message>>

\* C10: the category of an issue depends on its message only: two issues with the same
\* message carry the same category, whatever the analyzer held when each was classified.
C10_ClassificationIsPure ==
    \A i, j \in 1..Len(LocatedIssues) :
        LocatedIssues[i].message = LocatedIssues[j].message => LocatedIssues[i].type = LocatedIssues[j].type

\* C10 witness: the same message was classified by two calls, the second on an analyzer
\* that already counted errors and stored a group.
C10_Witness ==
    /\ Len(marks) >= 2
    /\ \E i \in 1..marks[1] : \E j \in (marks[1] + 1)..Len(analyzer.errors) :
           /\ analyzer.errors[i].file # <<>>
           /\ analyzer.errors[j].file # <<>>
           /\ analyzer.errors[i].message = analyzer.errors[j].message
           /\ analyzer.errors[i].type # "other"

\* the rules of the classifier in the order the specification gives them
RuleOrder ==
    <<"undeclared_identifier", "missing_import", "protocol_conformance", "missing_implementation",
      "conflicting_conformance", "invalid_override", "type_mismatch", "unnecessary_nil_coalescing",
      "initialization", "missing_brace", "invalid_declaration", "access_control", "concurrency">>

\* the condition of each rule (lines 262-300)
RuleMatches(category, message) ==
    CASE category = "undeclared_identifier" -> RE_undeclared(message)
      [] category = "missing_import" -> Contains(message, P_no_module)
      [] category = "protocol_conformance" -> Contains(message, P_not_conform)
      [] category = "missing_implementation" -> Contains(message, Sp(<<"does", "not", "implement", "required">>))
      [] category = "conflicting_conformance" ->
             Contains(message, P_conformance) /\ Contains(message, P_to_protocol)
      [] category = "invalid_override" ->
             Contains(message, <<"'", "override", "'", " ">>
                               \o Sp(<<"can", "only", "be", "specified", "on", "class", "members">>))
      [] category = "type_mismatch" -> RE_mismatch(message)
      [] category = "unnecessary_nil_coalescing" -> Contains(message, Sp(<<"nil", "coalescing", "operator">>))
      [] category = "initialization" -> RE_not_initialized(message)
      [] category = "missing_brace" -> Contains(message, P_brace)
      [] category = "invalid_declaration" -> Contains(message, Sp(<<"expected", "declaration">>))
      [] category = "access_control" -> Contains(message, P_access)
      [] category = "concurrency" ->
             Contains(message, P_sendable) \/ Contains(message, <<"@", "preconcurrency">>)

\* the rules a message matches, as positions of RuleOrder
MatchingRules(message) == {i \in 1..Len(RuleOrder) : RuleMatches(RuleOrder[i], message)}

\* C11: the classifier returns the category of the first rule, in the fixed order, that the
\* message matches, and "other" when it matches none.
C11_FirstMatchWins ==
    (call.op = "_categorize_issue" /\ out.done) =>
        IF MatchingRules(call.message) = {} THEN out.val = "other"
        ELSE \E i \in MatchingRules(call.message) :
                 /\ \A j \in MatchingRules(call.message) : i <= j
                 /\ out.val = RuleOrder[i]

\* C11 witness: a message that matches two rules has been classified
C11_Witness ==
    /\ call.op = "_categorize_issue"
    /\ out.done
    /\ Cardinality(MatchingRules(call.message)) >= 2

\* the readable log sources in which no diagnostic is found
CleanSources == {src \in LogSources : src.readable /\ IsClean(src.lines)}

\* a log directory that holds one log file
OnlyLog(src) == [combined |-> NoFile, log |-> src]

\* C12: the result of a run on a log source that could not be read differs from the result
\* of a run on any readable log without diagnostics: for main of the fixer (content read,
\* errors, exit status) and for find_and_analyze_logs of the analyzer (return value,
\* accumulators, analyzed files).
C12_CleanLogDiffersFromReadFailure ==
    /\ (call.op = "main" /\ out.done /\ ~call.source.readable)
           => \A c \in CleanSources : main(c) # out.val
    /\ (call.op = "find_and_analyze_logs" /\ out.done /\ call.dir.combined = NoFile
          /\ call.dir.log # NoFile /\ ~call.dir.log.readable /\ call.dir.log.size >= SmallFile)
           => \A c \in CleanSources : FindAndAnalyze(OnlyLog(c)) # out.val

\* C13: a run of the analyzer produces the same text report and the same structured record
\* as a run on the same logs started at any other time.
C13_ReportsAreDeterministic ==
    (call.op = "generate_reports" /\ out.done) =>
        \A t \in Times : Reports(FindAndAnalyze(call.dir), t) = out.val

\* the proximity groups stored for a file, as positions of related_errors
ProximityGroups(file) ==
    {g \in 1..Len(analyzer.related_errors) :
        /\ analyzer.related_errors[g].key[1] = "group"
        /\ analyzer.related_errors[g].key[2] = file}

\* a proximity group of the file holds both issues
InSameGroup(file, x, y) ==
    \E g \in ProximityGroups(file) :
        /\ \E k \in 1..Len(analyzer.related_errors[g].val) : analyzer.related_errors[g].val[k] = x
        /\ \E k \in 1..Len(analyzer.related_errors[g].val) : analyzer.related_errors[g].val[k] = y

\* the issues at positions i and j of a file's list follow one another in line order
Consecutive(list, i, j) ==
    /\ i # j
    /\ list[i].line <= list[j].line
    /\ \A k \in 1..Len(list) : ~(list[i].line < list[k].line /\ list[k].line < list[j].line)

IssuesOfCategory(category) ==
    {i \in 1..Len(AllIssues) : AllIssues[i].type = category}

\* the category groups stored for a category, as positions of related_errors
CategoryGroups(category) ==
    {g \in 1..Len(analyzer.related_errors) : analyzer.related_errors[g].key = <<"type", category>>}

\* C15: after a parse, every category (the category other included) with more than one issue
\* in the run has exactly one category group and the group holds every issue of the category
\* and nothing else; a category with at most one issue has no category group.
C15_CategoryGrouping ==
    marks # <<>> =>
        \A category \in {AllIssues[i].type : i \in 1..Len(AllIssues)} :
            IF Cardinality(IssuesOfCategory(category)) > 1
            THEN /\ Cardinality(CategoryGroups(category)) = 1
                 /\ \A g \in CategoryGroups(category) :
                        {analyzer.related_errors[g].val[k] : k \in 1..Len(analyzer.related_errors[g].val)}
                            = {AllIssues[i] : i \in IssuesOfCategory(category)}
            ELSE CategoryGroups(category) = {}

\* the text of the file after a fix routine, and the same text as lines
TextAfter  == Join(out.val.lines)
LinesAfter == SplitLines(TextAfter)

\* the brace diagnostics whose line lies inside the file, largest line first
BraceDiagsInside ==
    SelectSeq(SortByLineDesc(call.errors),
              LAMBDA e : IsBraceError(e) /\ 1 <= e.line /\ e.line <= Len(SplitLines(call.text)))

\* open braces less close braces of a text
Deficit(text) == Count(text, "{") - Count(text, "}")

\* n copies of a line
Copies(line, n) == [i \in 1..n |-> line]

\* the lines of the file with a closing brace, indented as the reported line, directly after
\* the reported line of each of the first n diagnostics
WithBracesAfter(file_lines, diags, n) ==
    Join([i \in 1..Len(file_lines) |->
             <<file_lines[i]>>
             \o Copies(get_indentation(file_lines[i]) \o <<"}", "\n">>,
                       Cardinality({j \in 1..n : diags[j].line = i}))])

\* C16: with d > 0 more open than close braces and k brace diagnostics inside the file,
\* fix_missing_braces adds exactly min(d, k) closing braces, one for each of the first
\* min(d, k) diagnostics in descending line order, each as a line directly after the reported
\* line with that line's indentation; afterwards there are no more close than open braces;
\* with d <= 0 the file is unchanged.
C16_DelimiterFix ==
    (call.op = "fix_missing_braces" /\ out.done) =>
        LET d == Deficit(call.text)
            k == Len(BraceDiagsInside)
            n == IF d <= k THEN d ELSE k
        IN  IF d > 0
            THEN /\ Count(TextAfter, "}") = Count(call.text, "}") + n
                 /\ Count(TextAfter, "{") = Count(call.text, "{")
                 /\ LinesAfter = WithBracesAfter(SplitLines(call.text), BraceDiagsInside, n)
                 /\ Deficit(TextAfter) >= 0
            ELSE TextAfter = call.text

\* the module a missing-module diagnostic names, <<>> when it names none
NamedModule(message) == QuotedAfter(message, P_no_module \o <<" ">>)

\* the line is an import line / a comment or blank line
IsImportLine(line)  == StartsWith(Strip(line), <<"import", " ">>)
IsLeadingLine(line) == StartsWith(Strip(line), <<"//">>) \/ Strip(line) = <<>>

\* the number of lines the new import line follows: those up to the last import line, or the
\* leading block of comment and blank lines when the file has no import line
ImportPlace(file_lines) ==
    LET imports == {i \in 1..Len(file_lines) : IsImportLine(file_lines[i])}
        leading == {n \in 0..Len(file_lines) : \A i \in 1..n : IsLeadingLine(file_lines[i])}
    IN  IF imports # {} THEN CHOOSE i \in imports : \A j \in imports : j <= i
        ELSE CHOOSE n \in leading : \A m \in leading : m <= n

\* C17: for a diagnostic "No such module 'M'" the file after fix_missing_import is the file
\* before it with the one line `import M` added directly after the last import line, or,
\* when the file has no import line, directly after the leading comment and blank lines;
\* every other line keeps its content and its place among the others.
C17_ImportPlacement ==
    (call.op = "fix_missing_import" /\ out.done /\ NamedModule(call.message) # <<>>) =>
        LET file_lines == SplitLines(call.text)
            place == ImportPlace(file_lines)
        IN  LinesAfter = SubSeq(file_lines, 1, place)
                         \o << <<"import", " ">> \o NamedModule(call.message) \o <<"\n">> >>
                         \o SubSeq(file_lines, place + 1, Len(file_lines))

\* the lines of the file as read that declare the named field without an initializer
Declarations(file_lines, name) ==
    {i \in 1..Len(file_lines) : /\ DeclarationMatch(file_lines[i], name).found
                                /\ ~Contains(file_lines[i], <<"=">>)}

\* C18: when fix_missing_initialization is called for a diagnostic that names a field, a
\* declaration of the field at most 10 lines before or after the diagnostic's line (10 lines
\* after included) gets its initializer, and no line more than 10 lines away is changed.
C18_WindowBothBoundsIncluded ==
    (call.op = "fix_missing_initialization" /\ out.done /\ PropertyMatch(call.message) # <<>>) =>
        LET file_lines == SplitLines(call.text)
            near == {i \in Declarations(file_lines, PropertyMatch(call.message)) :
                        AbsDiff(i, call.line) <= 10}
        IN  /\ Len(LinesAfter) = Len(file_lines)
            /\ near # {} => \E i \in near : LinesAfter[i] # file_lines[i]
            /\ \A i \in 1..Len(file_lines) : AbsDiff(i, call.line) > 10 => LinesAfter[i] = file_lines[i]

\* the initializers that fit a declared type, taken as a whole: nil for an optional, an empty
\* collection literal for an array or a dictionary, and the value of String, Int and Bool
FittingDefaults(type) ==
    IF type[Len(type)] = "?" THEN {<<"nil">>}
    ELSE IF type[1] = "[" /\ Contains(type, <<":">>) THEN {<<"[", ":", "]">>, <<"[", "]">>}
    ELSE IF type[1] = "[" THEN {<<"[", "]">>}
    ELSE IF type = <<"String">> THEN {<<"\"\"">>}
    ELSE IF type = <<"Int">> THEN {<<"0">>}
    ELSE IF type = <<"Bool">> THEN {<<"false">>}
    ELSE {get_default_value_for_type(type)}

\* C19: the initializer fix_missing_initialization appends to the declaration of a field
\* fits the declared type as a whole: "" for String, 0 for Int, false for Bool, an empty
\* collection literal for an array or dictionary type and nil for an optional type, whatever
\* the element or wrapped type.
C19_DefaultFitsDeclaredType ==
    (call.op = "fix_missing_initialization" /\ out.done /\ out.val.ret) =>
        \A type \in FieldTypes :
            call.text = DeclLine(type) =>
                \E default \in FittingDefaults(type) :
                    TextAfter = RStrip(DeclLine(type)) \o <<" ", "=", " ">> \o default \o <<"\n">>

\* the module a Sendable diagnostic names, <<>> when it names none
SendableModule(message) == QuotedAfter(message, <<"from", " ", "module", " ">>)

\* the line imports exactly the module: after `import` and the name the line ends or a
\* space follows
ImportsExactly(line, module_name) ==
    LET text == Strip(line)
        head == <<"import", " ">> \o module_name
    IN  /\ StartsWith(text, head)
        /\ (Len(text) = Len(head) \/ text[Len(head) + 1] = " ")

\* the line with @preconcurrency put before it, or before its text after the indentation,
\* with or without a newline added to a last line that had none
Prefixed(line) ==
    {prefix \o rest \o end :
        prefix \in {<<"@", "preconcurrency", " ">> \o get_indentation(line),
                    get_indentation(line) \o <<"@", "preconcurrency", " ">>},
        rest \in {SubSeq(line, Len(get_indentation(line)) + 1, Len(line))},
        end \in IF line[Len(line)] = "\n" THEN {<<>>} ELSE {<<>>, <<"\n">>}}

\* C20: after fix_add_preconcurrency for a Sendable diagnostic naming module M the file has
\* as many lines as before, and every line is either unchanged or was an import line of
\* exactly module M and is now that line prefixed with @preconcurrency, the rest of it kept.
C20_OnlyExactImportPrefixed ==
    (call.op = "fix_add_preconcurrency" /\ out.done /\ SendableModule(call.message) # <<>>) =>
        LET file_lines == SplitLines(call.text)
        IN  /\ Len(LinesAfter) = Len(file_lines)
            /\ \A i \in 1..Len(file_lines) :
                   \/ LinesAfter[i] = file_lines[i]
                   \/ /\ ImportsExactly(file_lines[i], SendableModule(call.message))
                      /\ LinesAfter[i] \in Prefixed(file_lines[i])

\* the positions of a line at which `public extension` starts
QualifierPlaces(line) == {i \in 1..Len(line) : MatchAt(line, i, <<"public", " ", "extension">>)}

\* the line without the lexemes `public` and the space after it at the places
WithoutQualifier(line, places) ==
    SelectSeq([i \in 1..Len(line) |-> IF i \in places \/ i - 1 \in places THEN "" ELSE line[i]],
              LAMBDA t : t # "")

\* the lines the visibility diagnostics given to fix_access_control report
ReportedAccessLines == {call.errors[i].line : i \in {j \in 1..Len(call.errors) : IsAccessError(call.errors[j])}}

\* C21: fix_access_control keeps the number of lines; a line that changes is a reported line
\* and changes only by losing `public` in front of `extension`; when no reported line holds
\* `public extension` no line changes and no fix is recorded.
C21_OnlyQualifierRemoved ==
    (call.op = "fix_access_control" /\ out.done) =>
        LET file_lines == SplitLines(call.text)
            fixable == {i \in ReportedAccessLines :
                           i \in 1..Len(file_lines) /\ QualifierPlaces(file_lines[i]) # {}}
        IN  /\ Len(LinesAfter) = Len(file_lines)
            /\ \A i \in 1..Len(file_lines) :
                   \/ LinesAfter[i] = file_lines[i]
                   \/ /\ i \in fixable
                      /\ \E places \in SUBSET QualifierPlaces(file_lines[i]) :
                             places # {} /\ LinesAfter[i] = WithoutQualifier(file_lines[i], places)
            /\ fixable = {} => (TextAfter = call.text /\ out.val.fixes = <<>>)

\* the files of the tree with the basename of the reported path
SameBasename == {q \in ToSet(call.walk) : Basename(q) = Basename(call.file_path)}

\* C22: the file fix_file_errors edits is the reported path itself when that path exists;
\* otherwise it is a file of the tree with the same basename and, among those, one with the
\* shortest path; no file is edited when there is none.
C22_ReportedPathFirst ==
    (call.op = "resolve" /\ out.done) =>
        IF call.file_path \in ToSet(call.walk) \cup call.outside THEN out.val = call.file_path
        ELSE IF SameBasename = {} THEN out.val = <<>>
        ELSE out.val \in SameBasename /\ \A q \in SameBasename : Len(out.val) <= Len(q)

\* the number of lines of the tail before its first empty line or diagnostic header
MessageLines(tail) ==
    LET ends == {k \in 1..Len(tail) : tail[k] = <<>> \/ HeaderAt(tail[k], 1)}
    IN  IF ends = {} THEN Len(tail) ELSE (CHOOSE k \in ends : \A j \in ends : k <= j) - 1

\* C23: the message of a located diagnostic is the text after its header with every line
\* that follows, up to and not including the first empty line or the first line that is the
\* header of a diagnostic; a line from column 0 that is no header is part of the message.
C23_MessageCapturedInFull ==
    (call.op = "capture" /\ out.done) =>
        /\ Len(out.val) >= 1
        /\ out.val[1].message =
               Strip(M_no_module
                     \o Join([k \in 1..MessageLines(call.tail) |-> <<"\n">> \o call.tail[k]]))

\* C24: the normalized path of a file logged by one machine is the normalized path of the
\* same file logged by any other machine, whatever the checkout directories of the two, and
\* normalizing it again returns it unchanged.
C24_SameFileSamePath ==
    (call.op = "_normalize_path" /\ out.done) =>
        /\ \A other \in MachinePrefixes : _normalize_path(other \o call.logical) = out.val
        /\ _normalize_path(out.val) = out.val

\* the counts by severity the structured record holds
DataTotals(data) ==
    << [key |-> "error", val |-> data.summary.error_count],
       [key |-> "warning", val |-> data.summary.warning_count] >>

\* the dict has the key
HasKey(d, k) == \E i \in 1..Len(d) : d[i].key = k

\* the two dicts have the same keys with the same values
SameItems(d, e) ==
    /\ \A i \in 1..Len(d) : HasKey(e, d[i].key) /\ DictGet(e, d[i].key, -1) = d[i].val
    /\ \A i \in 1..Len(e) : HasKey(d, e[i].key)

\* the list of numbers is in ascending order
Ascending(list) == \A i, j \in 1..Len(list) : i < j => list[i] <= list[j]

\* C25: the text report and the structured record of one analyzer state both show the total
\* of each severity (error, warning, note) and show the same total, both show the count of
\* each category of errors and of warnings and show the same count, and the text report
\* lists the issues of each file in ascending line order.
C25_ReportsAgree ==
    (call.op = "report" /\ out.done /\ call.log # <<>>) =>
        /\ \A severity \in {"error", "warning", "note"} :
               /\ HasKey(out.val.text.totals, severity)
               /\ HasKey(DataTotals(out.val.data), severity)
               /\ DictGet(out.val.text.totals, severity, -1) = DictGet(DataTotals(out.val.data), severity, -1)
        /\ SameItems(out.val.text.error_types, out.val.data.summary.error_types)
        /\ SameItems(out.val.text.warning_types, out.val.data.summary.warning_types)
        /\ \A i \in 1..Len(out.val.text.errors) : Ascending(out.val.text.errors[i].val)
        /\ \A i \in 1..Len(out.val.text.warnings) : Ascending(out.val.text.warnings[i].val)

\* the number of members of the list equal to x
Occurrences(list, x) == Cardinality({k \in 1..Len(list) : list[k] = x})

\* C26: after any sequence of parse_errors calls every correlation group holds each issue at
\* most once: an issue is in a group no more often than it is in the list of errors.
C26_GroupsAreSets ==
    \A g \in 1..Len(analyzer.related_errors) :
        \A k \in 1..Len(analyzer.related_errors[g].val) :
            Occurrences(analyzer.related_errors[g].val, analyzer.related_errors[g].val[k])
                <= Occurrences(analyzer.errors, analyzer.related_errors[g].val[k])

\* the fix routine that remedies the diagnostics of a category
RoutineOfCategory(category) ==
    CASE category = "missing_brace" -> {"fix_missing_braces"}
      [] category = "access_control" -> {"fix_access_control"}
      [] category = "conflicting_conformance" -> {"fix_conformance_declarations"}
      [] category = "undeclared_identifier" -> {"fix_undeclared_identifier"}
      [] category = "missing_import" -> {"fix_missing_import"}
      [] category \in {"protocol_conformance", "missing_implementation"} -> {"fix_missing_protocol_implementation"}
      [] category = "type_mismatch" -> {"fix_type_mismatch"}
      [] category = "initialization" -> {"fix_missing_initialization"}
      [] category = "concurrency" -> {"fix_add_preconcurrency"}
      [] OTHER -> {}

\* C27: the fix routines fix_file_errors selects for a message are exactly the routine of the
\* category _categorize_issue assigns to that message (none when the category has no routine).
C27_DispatchAgreesWithClassifier ==
    (call.op = "fix_file_errors" /\ out.done) =>
        out.val = RoutineOfCategory(_categorize_issue(call.message))

\* the pass changed at least one line of the file it read
LinesChanged(pass) == pass.st.lines # pass.read

\* C28: when fix_errors has returned, the count its result depends on equals the number of
\* entries of fixes_applied, every pass counted as many fixes as it added entries, and a pass
\* set the file to be rewritten, and counted a fix, exactly when it changed a line.
C28_AuditConsistency ==
    (pc = "done" /\ errors # <<>>) =>
        /\ fixes_count = Len(fixes_applied)
        /\ \A i \in 1..Len(passes) :
               /\ passes[i].st.count = Len(passes[i].st.fixes) - Len(passes[i].fixes_before)
               /\ passes[i].st.needs_save <=> LinesChanged(passes[i])
               /\ passes[i].st.count > 0 => LinesChanged(passes[i])

RECURSIVE SumOfCounts(_)
\* the sum of the values of a Counter
SumOfCounts(counter) ==
    IF counter = <<>> THEN 0 ELSE Head(counter).val + SumOfCounts(Tail(counter))

\* the issues of every list of a per-file dict, one after the other
RECURSIVE AllListed(_)
AllListed(by_file) ==
    IF by_file = <<>> THEN <<>> ELSE Head(by_file).val \o AllListed(Tail(by_file))

\* the error issues that have a file
ErrorsWithFile == SelectSeq(analyzer.errors, LAMBDA e : e.file # <<>>)

\* C29: after any sequence of parse_errors calls the counts of error_types sum to the number
\* of errors, the counts of warning_types sum to the number of warnings, and the lists of
\* errors_by_file hold exactly the errors that have a file: each as often as it is in errors,
\* and only under the key that is its file.
C29_AccumulatorsConsistent ==
    /\ SumOfCounts(analyzer.error_types) = Len(analyzer.errors)
    /\ SumOfCounts(analyzer.warning_types) = Len(analyzer.warnings)
    /\ Len(AllListed(analyzer.errors_by_file)) = Len(ErrorsWithFile)
    /\ \A i \in 1..Len(ErrorsWithFile) :
           Occurrences(AllListed(analyzer.errors_by_file), ErrorsWithFile[i])
               = Occurrences(ErrorsWithFile, ErrorsWithFile[i])
    /\ \A f \in 1..Len(analyzer.errors_by_file) :
           /\ \A k \in 1..Len(analyzer.errors_by_file[f].val) :
                  analyzer.errors_by_file[f].val[k].file = analyzer.errors_by_file[f].key
           /\ \A g \in 1..Len(analyzer.errors_by_file) :
                  analyzer.errors_by_file[g].key = analyzer.errors_by_file[f].key => g = f

\* C29 witness: after two parse_errors calls that each added errors, the analyzer holds an
\* error without a file, an error of a file and a warning
C29_Witness ==
    /\ Len(marks) >= 2
    /\ marks[1] > 0
    /\ marks[1] < Len(analyzer.errors)
    /\ \E i \in 1..Len(analyzer.errors) : analyzer.errors[i].file = <<>>
    /\ analyzer.errors_by_file # <<>>
    /\ analyzer.warnings # <<>>

\* the line declares the field name: the identifier name, not the end of a longer
\* identifier, followed by a colon and a type
DeclaresField(line, name) ==
    \E i \in 1..Len(line) :
        LET colon == i + Len(name) + SpaceRun(line, i + Len(name))
        IN  /\ MatchAt(line, i, name)
            /\ i = 1 \/ ~IsWord(line[i - 1])
            /\ colon <= Len(line) /\ line[colon] = ":"
            /\ TypeRun(line, colon + 1 + SpaceRun(line, colon + 1)) >= 1

\* C30: fix_missing_initialization changes only a line that declares the field the diagnostic
\* names (the identifier itself, not a longer identifier ending with the name) and that holds
\* no "="; called again on the file it wrote, for the same diagnostic, it changes no line,
\* records no fix and returns False.
C30_InitializerOnlyOnceOnItsField ==
    (call.op = "fix_missing_initialization" /\ out.done) =>
        /\ Len(out.val.lines) = Len(SplitLines(call.text))
        /\ \A i \in 1..Len(out.val.lines) :
               out.val.lines[i] # SplitLines(call.text)[i] =>
                   /\ DeclaresField(SplitLines(call.text)[i], PropertyMatch(call.message))
                   /\ ~Contains(SplitLines(call.text)[i], <<"=">>)
        /\ "again" \in DOMAIN out =>
               /\ out.again.lines = SplitLines(Join(out.val.lines))
               /\ out.again.fixes = <<>>
               /\ ~out.again.ret

====
